---- MODULE Spec2Model ----
\* Daily event lifecycle and location-aware notification engine:
\* LocationService (geofence monitor), PersistenceService (day-scoped cache)
\* and NotificationService (suppression policy), modelled from their sources.
EXTENDS Integers, Sequences, FiniteSets, TLC

VARIABLES
    \* ---- LocationService ----
    lastLocation,   \* <<>> (null) or <<latitude>> of the last known sample
    geofences,      \* the Map in insertion order: Seq of [id, center, radiusMeters, isActive]
    watchId,        \* <<>> (null) or <<id>> of the platform watch
    watches,        \* platform side: watch ids started and not cleared
    fired,          \* geofence callbacks invoked by the last operation, in order
    firstEv,        \* history: first event emitted for an id since its registration
    lastEv,         \* history: last event emitted for an id since it was last unregistered
    measured,       \* history: <<>> or <<the last call of calculateDistance and its result>>
    locOp,          \* history: the last LocationService operation and its inputs
    \* ---- PersistenceService ----
    storage,        \* localStorage: key -> <<>> (absent) or <<stored JSON value>>
    day,            \* the clock: the day getTodayDateString() returns
    tasks,          \* microtask queue: continuations of calls suspended at an await
    cacheOp,        \* history: the last PersistenceService step and its result
    adReturns,      \* history: values recordAdWatch returned for the current day
    adOverlap,      \* history: recordAdWatch calls of the current day overlapped
    lastCached,     \* history: argument and day of the last completed cacheDailyEvent
    available,      \* platform side: localStorage works (FALSE: every access throws)
    zone,           \* platform side: minutes the local time is ahead of UTC
    \* ---- NotificationService ----
    preferences,    \* [enabled, categories, quietHoursStart, quietHoursEnd]
    permission,     \* Notification.permission
    now,            \* the clock, in minutes since midnight of day 0 (local time)
    scheduledTimeouts,      \* Map id -> <<>> or <<timer handle>>
    timers,         \* platform side: armed setTimeout timers [handle, notification, at]
    locationNotifications,  \* Map id -> <<>> or <<LocationNotification>>
    tapCallbacks,   \* registered tap handlers, in registration order
    notifStorage,   \* localStorage: the two keys of the notification service
    presented,      \* notifications the last operation displayed, in order
    routed,         \* notifications the last operation passed to showNotification, in order
    returned,       \* <<>> or <<value>>: what the last operation resolved with
    displayed,      \* platform side: tags (ids) of the notifications on screen
    tapped,         \* tap-handler calls the last operation made, in order
    lastPrefs,      \* history: <<>> or <<the last argument of setPreferences>>
    armedUnder,     \* history: id -> <<>> or <<would it have been shown when last armed>>
    notifOp         \* history: the last NotificationService operation

locVars == <<lastLocation, geofences, watchId, watches, fired, firstEv, lastEv, measured, locOp>>
cacheVars == <<storage, day, tasks, cacheOp, adReturns, adOverlap, lastCached, available, zone>>

notifVars == <<preferences, permission, now, scheduledTimeouts, timers, locationNotifications,
               tapCallbacks, notifStorage, presented, routed, returned, displayed, tapped,
               lastPrefs, armedUnder, notifOp>>

vars == <<locVars, cacheVars, notifVars>>

--------------------------------------------------------------------------
\* Bounds of the model

MaxLat == 3          \* latitudes 0..MaxLat, in thousandths of a degree
MaxWatch == 2        \* watch ids the platform hands out
MaxDay == 2          \* days 0..MaxDay
MaxPending == 2      \* calls suspended at an await at the same time
MaxAds == 4          \* recordAdWatch is not called past this stored count
MaxTimers == 2       \* timer handles setTimeout hands out
MaxHandlers == 2     \* registered tap handlers
MaxNow == 2880       \* the clock stops after this many minutes
MaxLate == 30        \* minutes a timer may fire after its time
MaxSaved == 2        \* entries of a persisted schedule

Latitudes == 0 .. MaxLat
Centers == {0, 2}
RegionIds == {"r1", "r2"}
Radii == {150, 222}  \* metres; 222 m is the distance of two thousandths of a degree

Null == <<>>
Some(x) == <<x>>

--------------------------------------------------------------------------
\* LocationService

EARTH_RADIUS_METERS == 6371000

Abs(x) == IF x < 0 THEN -x ELSE x

\* Haversine distance in whole metres between two points of equal longitude,
\* latitudes in thousandths of a degree. With deltaLon = 0 the formula reduces to
\* a = sin^2(deltaLat/2), c = |deltaLat| in radians, distance = R * c; pi is taken
\* as 355/113. The quotient (R/1000 * 355 * |deltaLat|) / (113 * 180) is computed
\* from the quotient and the remainder of R/1000 * 355 by 113 * 180, which keeps
\* every intermediate value within 32 bits for differences up to 180 degrees.

\* mutant of calculateDistance: the difference keeps its sign
calculateDistanceSigned(from, to) ==
    LET k == (EARTH_RADIUS_METERS \div 1000) * 355
        b == 113 * 180
    IN  (k \div b) * (to - from) + ((k % b) * (to - from)) \div b

calculateDistance(from, to) ==
    LET k == (EARTH_RADIUS_METERS \div 1000) * 355
        b == 113 * 180
    IN  (k \div b) * Abs(to - from) + ((k % b) * Abs(to - from)) \div b

\* a caller measures the distance of two points
CalculateDistance(from, to) ==
    /\ measured' = Some([from |-> from, to |-> to, distance |-> calculateDistance(from, to)])
    /\ fired' = <<>>
    /\ locOp' = [name |-> "calculateDistance", id |-> "", lat |-> -1, flag |-> FALSE, error |-> ""]
    /\ UNCHANGED <<lastLocation, geofences, watchId, watches, firstEv, lastEv>>

IndexOf(id) ==
    IF \E i \in 1 .. Len(geofences) : geofences[i].id = id
    THEN CHOOSE i \in 1 .. Len(geofences) : geofences[i].id = id
    ELSE 0

IsRegistered(id) == IndexOf(id) # 0

\* Map.set: an existing key keeps its position, a new key is appended
MapSet(region) ==
    IF IsRegistered(region.id)
    THEN [geofences EXCEPT ![IndexOf(region.id)] = region]
    ELSE Append(geofences, region)

\* mutant of MapDelete: the first entry is removed, whatever its key
MapDeleteFirst(id) == IF geofences = <<>> THEN geofences ELSE Tail(geofences)

\* Map.delete
MapDelete(id) == SelectSeq(geofences, LAMBDA g : g.id # id)

\* mutant of AlreadyInside: a location on the boundary counts as outside
AlreadyInsideStrict(region) ==
    /\ lastLocation # Null
    /\ calculateDistance(lastLocation[1], region.center) < region.radiusMeters

\* registerGeofence: is the last known location within the region
AlreadyInside(region) ==
    /\ lastLocation # Null
    /\ calculateDistance(lastLocation[1], region.center) <= region.radiusMeters

RegisterGeofence(region) ==
    /\ geofences' = MapSet([region EXCEPT !.isActive = AlreadyInside(region) \/ region.isActive])
    /\ fired' = IF AlreadyInside(region) THEN <<[id |-> region.id, event |-> "enter"]>> ELSE <<>>
    /\ firstEv' = [firstEv EXCEPT ![region.id] = IF AlreadyInside(region) THEN "enter" ELSE "none"]
    /\ lastEv' = [lastEv EXCEPT ![region.id] = IF AlreadyInside(region) THEN "enter" ELSE @]
    /\ locOp' = [name |-> "registerGeofence", id |-> region.id, lat |-> -1,
                 flag |-> AlreadyInside(region), error |-> ""]
    /\ UNCHANGED <<lastLocation, watchId, watches, measured>>

UnregisterGeofence(regionId) ==
    /\ geofences' = MapDelete(regionId)
    /\ fired' = <<>>
    /\ firstEv' = [firstEv EXCEPT ![regionId] = "none"]
    /\ lastEv' = [lastEv EXCEPT ![regionId] = "none"]
    /\ locOp' = [name |-> "unregisterGeofence", id |-> regionId, lat |-> -1,
                 flag |-> IsRegistered(regionId) /\ geofences[IndexOf(regionId)].isActive, error |-> ""]
    /\ UNCHANGED <<lastLocation, watchId, watches, measured>>

\* mutant of Transition: 'enter' on every sample inside, whatever the state
TransitionLevelTriggered(region, lat) ==
    LET distance == calculateDistance(lat, region.center)
        isInside == distance <= region.radiusMeters
    IN  IF isInside THEN "enter"
        ELSE IF region.isActive THEN "exit"
        ELSE "none"

\* checkGeofences, one region: the event the callback is invoked with, or "none"
Transition(region, lat) ==
    LET distance == calculateDistance(lat, region.center)
        isInside == distance <= region.radiusMeters
    IN  IF isInside /\ ~region.isActive THEN "enter"
        ELSE IF ~isInside /\ region.isActive THEN "exit"
        ELSE "none"

AfterCheck(region, lat) ==
    LET ev == Transition(region, lat)
    IN  IF ev = "enter" THEN [region EXCEPT !.isActive = TRUE]
        ELSE IF ev = "exit" THEN [region EXCEPT !.isActive = FALSE]
        ELSE region

RECURSIVE FiredFrom(_, _)
FiredFrom(i, lat) ==
    IF i > Len(geofences) THEN <<>>
    ELSE LET ev == Transition(geofences[i], lat)
         IN  (IF ev = "none" THEN <<>> ELSE <<[id |-> geofences[i].id, event |-> ev]>>)
             \o FiredFrom(i + 1, lat)

checkGeofences(lat) ==
    /\ geofences' = [i \in 1 .. Len(geofences) |-> AfterCheck(geofences[i], lat)]
    /\ fired' = FiredFrom(1, lat)
    /\ firstEv' = [id \in RegionIds |->
                     IF firstEv[id] = "none" /\ IsRegistered(id)
                     THEN Transition(geofences[IndexOf(id)], lat)
                     ELSE firstEv[id]]
    /\ lastEv' = [id \in RegionIds |->
                    IF IsRegistered(id) /\ Transition(geofences[IndexOf(id)], lat) # "none"
                    THEN Transition(geofences[IndexOf(id)], lat)
                    ELSE lastEv[id]]

\* the watchPosition success callback
WatchSample(lat) ==
    /\ watchId # Null
    /\ watchId[1] \in watches
    /\ lastLocation' = Some(lat)
    /\ checkGeofences(lat)
    /\ locOp' = [name |-> "watchSample", id |-> "", lat |-> lat, flag |-> FALSE, error |-> ""]
    /\ UNCHANGED <<watchId, watches, measured>>

\* getCurrentLocation, success callback
GetCurrentLocationOk(lat) ==
    /\ lastLocation' = Some(lat)
    /\ fired' = <<>>
    /\ locOp' = [name |-> "getCurrentLocation", id |-> "", lat |-> lat, flag |-> TRUE, error |-> ""]
    /\ UNCHANGED <<geofences, watchId, watches, firstEv, lastEv, measured>>

\* GeolocationPositionError codes
PositionErrors == {"PERMISSION_DENIED", "POSITION_UNAVAILABLE", "TIMEOUT", "OTHER"}

\* getCurrentLocation, error callback: the message of the Error it rejects with
ErrorMessage(code) ==
    CASE code = "PERMISSION_DENIED" -> "Location permission denied"
      [] code = "POSITION_UNAVAILABLE" -> "Location information unavailable"
      [] code = "TIMEOUT" -> "Location request timed out"
      [] OTHER -> "Unknown location error"

\* mutant of GetCurrentLocationFail: a failed request forgets the last location
GetCurrentLocationFailForgets(code) ==
    /\ lastLocation' = Null
    /\ fired' = <<>>
    /\ locOp' = [name |-> "getCurrentLocation", id |-> "", lat |-> -1, flag |-> FALSE,
                 error |-> ErrorMessage(code)]
    /\ UNCHANGED <<geofences, watchId, watches, firstEv, lastEv, measured>>

\* getCurrentLocation, error callback: the promise rejects
GetCurrentLocationFail(code) ==
    /\ fired' = <<>>
    /\ locOp' = [name |-> "getCurrentLocation", id |-> "", lat |-> -1, flag |-> FALSE,
                 error |-> ErrorMessage(code)]
    /\ UNCHANGED <<lastLocation, geofences, watchId, watches, firstEv, lastEv, measured>>

\* navigator.geolocation.watchPosition hands out an id no active watch has
FreshWatch(active) == CHOOSE id \in 1 .. MaxWatch + 1 : id \notin active /\ \A j \in 1 .. id - 1 : j \in active

\* mutant of StartLocationUpdates: the running watch is not cleared first
StartLocationUpdatesNoStop ==
    /\ Cardinality(watches) <= MaxWatch
    /\ LET id == FreshWatch(watches)
       IN  /\ watches' = watches \cup {id}
           /\ watchId' = Some(id)
    /\ fired' = <<>>
    /\ locOp' = [name |-> "startLocationUpdates", id |-> "", lat |-> -1, flag |-> watchId # Null,
                 error |-> ""]
    /\ UNCHANGED <<lastLocation, geofences, firstEv, lastEv, measured>>

StartLocationUpdates ==
    /\ Cardinality(watches) <= MaxWatch
    /\ LET cleared == IF watchId # Null THEN watches \ {watchId[1]} ELSE watches
           id == FreshWatch(cleared)
       IN  /\ watches' = cleared \cup {id}
           /\ watchId' = Some(id)
    /\ fired' = <<>>
    /\ locOp' = [name |-> "startLocationUpdates", id |-> "", lat |-> -1, flag |-> watchId # Null, error |-> ""]
    /\ UNCHANGED <<lastLocation, geofences, firstEv, lastEv, measured>>

StopLocationUpdates ==
    /\ watches' = IF watchId # Null THEN watches \ {watchId[1]} ELSE watches
    /\ watchId' = Null
    /\ fired' = <<>>
    /\ locOp' = [name |-> "stopLocationUpdates", id |-> "", lat |-> -1, flag |-> watchId # Null, error |-> ""]
    /\ UNCHANGED <<lastLocation, geofences, firstEv, lastEv, measured>>

Regions == [id : RegionIds, center : Centers, radiusMeters : Radii, isActive : BOOLEAN]

LocInit ==
    /\ lastLocation = Null
    /\ geofences = <<>>
    /\ watchId = Null
    /\ watches = {}
    /\ fired = <<>>
    /\ firstEv = [id \in RegionIds |-> "none"]
    /\ lastEv = [id \in RegionIds |-> "none"]
    /\ measured = Null
    /\ locOp = [name |-> "init", id |-> "", lat |-> -1, flag |-> FALSE, error |-> ""]

LocNext ==
    \/ \E region \in Regions : RegisterGeofence(region) /\ UNCHANGED <<cacheVars, notifVars>>
    \/ \E id \in RegionIds : UnregisterGeofence(id) /\ UNCHANGED <<cacheVars, notifVars>>
    \/ \E lat \in Latitudes : WatchSample(lat) /\ UNCHANGED <<cacheVars, notifVars>>
    \/ \E lat \in Latitudes : GetCurrentLocationOk(lat) /\ UNCHANGED <<cacheVars, notifVars>>
    \/ \E code \in PositionErrors :
         GetCurrentLocationFail(code) /\ UNCHANGED <<cacheVars, notifVars>>
    \/ StartLocationUpdates /\ UNCHANGED <<cacheVars, notifVars>>
    \/ StopLocationUpdates /\ UNCHANGED <<cacheVars, notifVars>>


--------------------------------------------------------------------------
\* PersistenceService

ADS_REQUIRED == 3

\* StorageKey members; StorageKey has no member AD_WATCH_COUNT, so the key the
\* ad-watch counter is stored under is the string of the undefined value
DAILY_EVENT_CACHE == "herenow_daily_event"
LAST_EVENT_DATE == "herenow_last_event_date"
AD_WATCH_COUNT == "undefined"

StorageKeys == {DAILY_EVENT_CACHE, LAST_EVENT_DATE, AD_WATCH_COUNT}

EventIds == {"event-001", "event-002"}

\* a DailyEvent as callers hold it: startTime is a Date, or the string a cached
\* event carries
DailyEvents == [type : {"DailyEvent"}, id : EventIds, startTime : {"Date", "string"}]

\* JSON.stringify: a Date field is written as its ISO string; strings, numbers and
\* plain objects are written as they are
JsonStringify(value) ==
    IF value.type = "DailyEvent" THEN [value EXCEPT !.startTime = "string"] ELSE value

\* JSON.parse of a text JSON.stringify produced: the plain value
JsonParse(raw) == raw

\* A stored text JSON.parse rejects; a stored value is <<>> when the key is
\* absent and <<value>> when it holds the JSON of value
Malformed == <<"{", "{">>
IsMalformed(slot) == Len(slot) = 2

\* set: localStorage.setItem(key, JSON.stringify(value))
StorageSet(store, key, value) == [store EXCEPT ![key] = Some(JsonStringify(value))]

\* set: setItem throws when the storage does not work, and set throws in turn
SetFails == ~available

\* get: null when the key is absent, null when getItem or JSON.parse throws, the
\* parsed value otherwise
StorageGet(store, key) ==
    IF ~available \/ store[key] = Null \/ IsMalformed(store[key]) THEN Null
    ELSE Some(JsonParse(store[key][1]))

DateString(d) == [type |-> "string", value |-> d]
AdData(d, n) == [type |-> "adData", date |-> d, count |-> n]

\* getTodayDateString
getTodayDateString == day

Pending(op) == \E i \in 1 .. Len(tasks) : tasks[i].op = op

\* recordAdWatch up to its first await: today and the stored counter are read
RecordAdWatchCall ==
    /\ Len(tasks) < MaxPending
    /\ StorageGet(storage, AD_WATCH_COUNT) # Null =>
         StorageGet(storage, AD_WATCH_COUNT)[1].count < MaxAds
    /\ tasks' = Append(tasks, [op |-> "recordAdWatch", today |-> getTodayDateString,
                               read |-> StorageGet(storage, AD_WATCH_COUNT),
                               arg |-> Null, alone |-> tasks = <<>>])
    /\ adOverlap' = (adOverlap \/ Pending("recordAdWatch"))
    /\ cacheOp' = [name |-> "recordAdWatch.call", result |-> Null, today |-> day, alone |-> tasks = <<>>, error |-> FALSE]
    /\ UNCHANGED <<storage, day, adReturns, lastCached, available, zone>>

\* mutant of NewCount: the count of an earlier day is not reset
NewCountNoReset(adData, today) ==
    IF adData = Null THEN 1 ELSE adData[1].count + 1

\* recordAdWatch: the count it stores and returns, from what it read
NewCount(adData, today) ==
    IF adData = Null \/ adData[1].date # today THEN 1 ELSE adData[1].count + 1

\* recordAdWatch after the await: the counter is written and the count returned
RecordAdWatchResume ==
    /\ tasks # <<>>
    /\ Head(tasks).op = "recordAdWatch"
    /\ LET t == Head(tasks)
           newCount == NewCount(t.read, t.today)
       IN  IF SetFails
           THEN /\ cacheOp' = [name |-> "recordAdWatch", result |-> Null, today |-> t.today,
                               alone |-> t.alone /\ Len(tasks) = 1, error |-> TRUE]
                /\ UNCHANGED <<storage, adReturns>>
           ELSE /\ storage' = StorageSet(storage, AD_WATCH_COUNT, AdData(t.today, newCount))
                /\ adReturns' = IF t.today = day THEN Append(adReturns, newCount) ELSE adReturns
                /\ cacheOp' = [name |-> "recordAdWatch", result |-> Some(newCount),
                               today |-> t.today, alone |-> t.alone /\ Len(tasks) = 1,
                               error |-> FALSE]
    /\ tasks' = Tail(tasks)
    /\ UNCHANGED <<day, adOverlap, lastCached, available, zone>>

\* mutant of AdWatchCount: the stored count is returned whatever its day
AdWatchCountAnyDay ==
    LET adData == StorageGet(storage, AD_WATCH_COUNT)
    IN  IF adData = Null THEN 0 ELSE adData[1].count

\* getAdWatchCount: today and the counter are read before its await
AdWatchCount ==
    LET today == getTodayDateString
        adData == StorageGet(storage, AD_WATCH_COUNT)
    IN  IF adData = Null \/ adData[1].date # today THEN 0 ELSE adData[1].count

\* mutant of GetAdWatchCount: a counter of another day is reset in the store
GetAdWatchCountResetting ==
    /\ cacheOp' = [name |-> "getAdWatchCount", result |-> Some(AdWatchCount), today |-> day,
                   alone |-> tasks = <<>>, error |-> FALSE]
    /\ storage' = IF StorageGet(storage, AD_WATCH_COUNT) # Null /\ AdWatchCount = 0
                  THEN StorageSet(storage, AD_WATCH_COUNT, AdData(day, 0))
                  ELSE storage
    /\ UNCHANGED <<day, tasks, adReturns, adOverlap, lastCached, available, zone>>

GetAdWatchCount ==
    /\ cacheOp' = [name |-> "getAdWatchCount", result |-> Some(AdWatchCount), today |-> day,
                   alone |-> tasks = <<>>, error |-> FALSE]
    /\ UNCHANGED <<storage, day, tasks, adReturns, adOverlap, lastCached, available, zone>>

IsEventUnlocked ==
    /\ cacheOp' = [name |-> "isEventUnlocked", result |-> Some(AdWatchCount >= ADS_REQUIRED),
                   today |-> day, alone |-> tasks = <<>>, error |-> FALSE]
    /\ UNCHANGED <<storage, day, tasks, adReturns, adOverlap, lastCached, available, zone>>

\* cacheDailyEvent up to its first await: today is read and the event written;
\* when the write throws the call ends there with the error
CacheDailyEventCall(event) ==
    /\ Len(tasks) < MaxPending
    /\ IF SetFails
       THEN /\ cacheOp' = [name |-> "cacheDailyEvent", result |-> Null, today |-> day,
                           alone |-> tasks = <<>>, error |-> TRUE]
            /\ UNCHANGED <<storage, tasks>>
       ELSE /\ storage' = StorageSet(storage, DAILY_EVENT_CACHE, event)
            /\ tasks' = Append(tasks, [op |-> "cacheDailyEvent", today |-> getTodayDateString,
                                       read |-> Null, arg |-> Some(event), alone |-> tasks = <<>>])
            /\ cacheOp' = [name |-> "cacheDailyEvent.call", result |-> Null, today |-> day,
                           alone |-> tasks = <<>>, error |-> FALSE]
    /\ UNCHANGED <<day, adReturns, adOverlap, lastCached, available, zone>>

\* cacheDailyEvent after the await: the day-stamp is written
CacheDailyEventResume ==
    /\ tasks # <<>>
    /\ Head(tasks).op = "cacheDailyEvent"
    /\ LET t == Head(tasks)
       IN  IF SetFails
           THEN /\ cacheOp' = [name |-> "cacheDailyEvent", result |-> Null, today |-> t.today,
                               alone |-> t.alone /\ Len(tasks) = 1, error |-> TRUE]
                /\ UNCHANGED <<storage, lastCached>>
           ELSE /\ storage' = StorageSet(storage, LAST_EVENT_DATE, DateString(t.today))
                /\ lastCached' = Some([event |-> t.arg[1], day |-> t.today])
                /\ cacheOp' = [name |-> "cacheDailyEvent", result |-> Null, today |-> t.today,
                               alone |-> t.alone /\ Len(tasks) = 1, error |-> FALSE]
    /\ tasks' = Tail(tasks)
    /\ UNCHANGED <<day, adReturns, adOverlap, available, zone>>

\* getCachedDailyEvent up to its first await: the stored day-stamp is read
GetCachedDailyEventCall ==
    /\ Len(tasks) < MaxPending
    /\ tasks' = Append(tasks, [op |-> "getCachedDailyEvent", today |-> day,
                               read |-> StorageGet(storage, LAST_EVENT_DATE),
                               arg |-> Null, alone |-> tasks = <<>>])
    /\ cacheOp' = [name |-> "getCachedDailyEvent.call", result |-> Null, today |-> day, alone |-> tasks = <<>>, error |-> FALSE]
    /\ UNCHANGED <<storage, day, adReturns, adOverlap, lastCached, available, zone>>

\* mutant of IsFresh: yesterday's day-stamp counts as today's too
IsFreshSinceYesterday(lastEventDate, today) ==
    lastEventDate # Null /\ lastEventDate[1].value >= today - 1

\* mutant of IsFresh: any stored day-stamp counts as today's
IsFreshAnyDay(lastEventDate, today) == lastEventDate # Null

\* getCachedDailyEvent: is the day-stamp it read today's
IsFresh(lastEventDate, today) == lastEventDate # Null /\ lastEventDate[1].value = today

\* getCachedDailyEvent after the await: today is read, the stamp compared, the
\* event read
GetCachedDailyEventResume ==
    /\ tasks # <<>>
    /\ Head(tasks).op = "getCachedDailyEvent"
    /\ LET t == Head(tasks)
           today == getTodayDateString
       IN  cacheOp' = [name |-> "getCachedDailyEvent",
                       result |-> IF IsFresh(t.read, today)
                                  THEN StorageGet(storage, DAILY_EVENT_CACHE) ELSE Null,
                       today |-> today, alone |-> t.alone /\ Len(tasks) = 1, error |-> FALSE]
    /\ tasks' = Tail(tasks)
    /\ UNCHANGED <<storage, day, adReturns, adOverlap, lastCached, available, zone>>

\* the clock passes midnight (UTC, the day toISOString reports)
AdvanceDay ==
    /\ day < MaxDay
    /\ day' = day + 1
    /\ adReturns' = <<>>
    /\ adOverlap' = FALSE
    /\ cacheOp' = [name |-> "advanceDay", result |-> Null, today |-> day + 1, alone |-> tasks = <<>>, error |-> FALSE]
    /\ UNCHANGED <<storage, tasks, lastCached, available, zone>>

CacheInit ==
    /\ storage = [k \in StorageKeys |-> Null]
    /\ day = 0
    /\ tasks = <<>>
    /\ cacheOp = [name |-> "init", result |-> Null, today |-> 0, alone |-> TRUE, error |-> FALSE]
    /\ adReturns = <<>>
    /\ adOverlap = FALSE
    /\ lastCached = Null
    /\ available = TRUE
    /\ zone = 0

\* the ad-watch counter and its readers
AdWatchNext ==
    \/ RecordAdWatchCall /\ UNCHANGED <<locVars, notifVars>>
    \/ RecordAdWatchResume /\ UNCHANGED <<locVars, notifVars>>
    \/ GetAdWatchCount /\ UNCHANGED <<locVars, notifVars>>
    \/ IsEventUnlocked /\ UNCHANGED <<locVars, notifVars>>
    \/ AdvanceDay /\ UNCHANGED <<locVars, notifVars>>

\* the daily-event cache
DailyEventNext ==
    \/ \E event \in DailyEvents : CacheDailyEventCall(event) /\ UNCHANGED <<locVars, notifVars>>
    \/ CacheDailyEventResume /\ UNCHANGED <<locVars, notifVars>>
    \/ GetCachedDailyEventCall /\ UNCHANGED <<locVars, notifVars>>
    \/ GetCachedDailyEventResume /\ UNCHANGED <<locVars, notifVars>>
    \/ AdvanceDay /\ UNCHANGED <<locVars, notifVars>>

--------------------------------------------------------------------------
\* NotificationService

PREFERENCES_KEY == "herenow_notification_prefs"
SCHEDULED_KEY == "herenow_scheduled_notifications"

\* NotificationCategory (two of its five members)
Categories == {"daily_event", "system"}

NotificationIds == {"n1", "n2"}

\* A string of digits and ':' as the sequence of its character codes
Char0 == 48
Colon == 58

\* String(n).padStart(2, '0') for 0 <= n <= 99
PadStart2(n) == <<Char0 + (n \div 10), Char0 + (n % 10)>>

\* `${hours padded}:${minutes padded}`
HHMM(h, m) == PadStart2(h) \o <<Colon>> \o PadStart2(m)

\* the < of two strings: by the first character that differs, a proper prefix
\* being the smaller
RECURSIVE StrLess(_, _)
StrLess(a, b) ==
    IF b = <<>> THEN FALSE
    ELSE IF a = <<>> THEN TRUE
    ELSE IF Head(a) # Head(b) THEN Head(a) < Head(b)
    ELSE StrLess(Tail(a), Tail(b))

\* now.getHours() and now.getMinutes()
getHours(t) == (t % 1440) \div 60
getMinutes(t) == t % 60

\* mutant of isQuietHours: a window that wraps past midnight is not handled
isQuietHoursNoWrap(prefs, t) ==
    LET currentTime == HHMM(getHours(t), getMinutes(t))
    IN  IF prefs.quietHoursStart = <<>> \/ prefs.quietHoursEnd = <<>> THEN FALSE
        ELSE ~StrLess(currentTime, prefs.quietHoursStart) /\ StrLess(currentTime, prefs.quietHoursEnd)

\* isQuietHours at clock time t
isQuietHours(prefs, t) ==
    LET quietHoursStart == prefs.quietHoursStart
        quietHoursEnd == prefs.quietHoursEnd
        currentTime == HHMM(getHours(t), getMinutes(t))
    IN  IF quietHoursStart = <<>> \/ quietHoursEnd = <<>> THEN FALSE
        ELSE IF StrLess(quietHoursEnd, quietHoursStart)
             THEN ~StrLess(currentTime, quietHoursStart) \/ StrLess(currentTime, quietHoursEnd)
             ELSE ~StrLess(currentTime, quietHoursStart) /\ StrLess(currentTime, quietHoursEnd)

isCategoryEnabled(prefs, category) == prefs.enabled /\ prefs.categories[category]

hasPermission == permission = "granted"

\* mutant of Delivers: quiet hours are not consulted
DeliversInQuietHours(n) ==
    /\ isCategoryEnabled(preferences, n.category)
    /\ hasPermission

\* showNotification: is the notification displayed. The three gates and the
\* permission are all read before the first suspension of the call.
Delivers(n) ==
    /\ isCategoryEnabled(preferences, n.category)
    /\ ~isQuietHours(preferences, now)
    /\ hasPermission

ShowNotification(n) ==
    /\ presented' = IF Delivers(n) THEN <<n.id>> ELSE <<>>
    /\ routed' = <<n.id>>
    /\ returned' = Null
    /\ displayed' = displayed \cup {presented'[i] : i \in 1 .. Len(presented')}
    /\ tapped' = <<>>
    /\ lastPrefs' = lastPrefs
    /\ armedUnder' = armedUnder
    /\ notifOp' = [name |-> "showNotification", id |-> n.id, category |-> n.category,
                   quiet |-> isQuietHours(preferences, now)]
    /\ UNCHANGED <<preferences, permission, now, scheduledTimeouts, timers,
                   locationNotifications, tapCallbacks, notifStorage>>

\* JSON.stringify of the preferences, and JSON.parse of that text
PreferencesText(p) == [json |-> p]
ParsePreferences(text) == text.json

\* localStorage.setItem inside try/catch: nothing is stored when it throws
SetItem(key, text) ==
    IF available THEN [notifStorage EXCEPT ![key] = Some(text)] ELSE notifStorage

\* mutant of savePreferences: the preferences are not written
savePreferencesNever(p) == notifStorage

\* savePreferences
savePreferences(p) == SetItem(PREFERENCES_KEY, PreferencesText(p))

\* setPreferences: the preferences are replaced and saved
SetPreferences(p) ==
    /\ preferences' = p
    /\ notifStorage' = savePreferences(p)
    /\ presented' = <<>>
    /\ routed' = <<>>
    /\ returned' = Null
    /\ displayed' = displayed \cup {presented'[i] : i \in 1 .. Len(presented')}
    /\ tapped' = <<>>
    /\ lastPrefs' = Some(p)
    /\ armedUnder' = armedUnder
    /\ notifOp' = [name |-> "setPreferences", id |-> "", category |-> "", quiet |-> FALSE]
    /\ UNCHANGED <<permission, now, scheduledTimeouts, timers, locationNotifications, tapCallbacks>>

\* onNotificationTap
OnNotificationTap(callback) ==
    /\ Len(tapCallbacks) < MaxHandlers
    /\ tapCallbacks' = Append(tapCallbacks, callback)
    /\ presented' = <<>>
    /\ routed' = <<>>
    /\ returned' = Null
    /\ displayed' = displayed \cup {presented'[i] : i \in 1 .. Len(presented')}
    /\ tapped' = <<>>
    /\ lastPrefs' = lastPrefs
    /\ armedUnder' = armedUnder
    /\ notifOp' = [name |-> "onNotificationTap", id |-> callback, category |-> "", quiet |-> FALSE]
    /\ UNCHANGED <<preferences, permission, now, scheduledTimeouts, timers,
                   locationNotifications, notifStorage>>

RegisterLocationNotification(n) ==
    /\ locationNotifications' = [locationNotifications EXCEPT ![n.id] = Some(n)]
    /\ presented' = <<>>
    /\ routed' = <<>>
    /\ returned' = Null
    /\ displayed' = displayed \cup {presented'[i] : i \in 1 .. Len(presented')}
    /\ tapped' = <<>>
    /\ lastPrefs' = lastPrefs
    /\ armedUnder' = armedUnder
    /\ notifOp' = [name |-> "registerLocationNotification", id |-> n.id,
                   category |-> n.category, quiet |-> FALSE]
    /\ UNCHANGED <<preferences, permission, now, scheduledTimeouts, timers, tapCallbacks,
                   notifStorage>>

UnregisterLocationNotification(id) ==
    /\ locationNotifications' = [locationNotifications EXCEPT ![id] = Null]
    /\ presented' = <<>>
    /\ routed' = <<>>
    /\ returned' = Null
    /\ displayed' = displayed \cup {presented'[i] : i \in 1 .. Len(presented')}
    /\ tapped' = <<>>
    /\ lastPrefs' = lastPrefs
    /\ armedUnder' = armedUnder
    /\ notifOp' = [name |-> "unregisterLocationNotification", id |-> id,
                   category |-> "", quiet |-> FALSE]
    /\ UNCHANGED <<preferences, permission, now, scheduledTimeouts, timers, tapCallbacks,
                   notifStorage>>

\* setTimeout hands out a handle no armed timer has
FreshHandle(armed) == CHOOSE h \in 1 .. MaxTimers + 1 : \A t \in armed : t.handle # h

\* mutant of Arms: a delay of zero arms a timer
ArmsAtZeroDelay(n) == n.scheduledTime - now >= 0

\* scheduleNotificationInternal: nothing is armed unless the delay is positive
Arms(n) == n.scheduledTime - now > 0

\* scheduleNotificationInternal: the armed timers and the handle map after it
ArmedTimers(armed, n) ==
    IF Arms(n)
    THEN armed \cup {[handle |-> FreshHandle(armed), notification |-> n, at |-> n.scheduledTime]}
    ELSE armed

ArmedMap(armed, map, n) ==
    IF Arms(n) THEN [map EXCEPT ![n.id] = Some(FreshHandle(armed))] ELSE map

\* getPendingNotificationsSync: always the empty array
getPendingNotificationsSync == <<>>

\* saveScheduledNotifications
SavedSchedule == SetItem(SCHEDULED_KEY, getPendingNotificationsSync)

\* scheduleNotification
ScheduleNotification(n) ==
    /\ Cardinality(timers) < MaxTimers
    /\ timers' = ArmedTimers(timers, n)
    /\ scheduledTimeouts' = ArmedMap(timers, scheduledTimeouts, n)
    /\ notifStorage' = SavedSchedule
    /\ presented' = <<>>
    /\ routed' = <<>>
    /\ returned' = Some(n.id)
    /\ displayed' = displayed \cup {presented'[i] : i \in 1 .. Len(presented')}
    /\ tapped' = <<>>
    /\ lastPrefs' = lastPrefs
    /\ armedUnder' = IF Arms(n) THEN [armedUnder EXCEPT ![n.id] = Some(Delivers(n))] ELSE armedUnder
    /\ notifOp' = [name |-> "scheduleNotification", id |-> n.id, category |-> n.category,
                   quiet |-> FALSE]
    /\ UNCHANGED <<preferences, permission, now, locationNotifications, tapCallbacks>>

\* cancelScheduledNotification
CancelScheduledNotification(id) ==
    /\ timers' = IF scheduledTimeouts[id] # Null
                 THEN {t \in timers : t.handle # scheduledTimeouts[id][1]}
                 ELSE timers
    /\ scheduledTimeouts' = [scheduledTimeouts EXCEPT ![id] = Null]
    /\ notifStorage' = SavedSchedule
    /\ presented' = <<>>
    /\ routed' = <<>>
    /\ returned' = Null
    /\ displayed' = displayed \cup {presented'[i] : i \in 1 .. Len(presented')}
    /\ tapped' = <<>>
    /\ lastPrefs' = lastPrefs
    /\ armedUnder' = armedUnder
    /\ notifOp' = [name |-> "cancelScheduledNotification", id |-> id, category |-> "",
                   quiet |-> FALSE]
    /\ UNCHANGED <<preferences, permission, now, locationNotifications, tapCallbacks>>

\* cancelAllScheduledNotifications
CancelAllScheduledNotifications ==
    /\ timers' = {t \in timers : \A id \in NotificationIds : scheduledTimeouts[id] # Some(t.handle)}
    /\ scheduledTimeouts' = [id \in NotificationIds |-> Null]
    /\ notifStorage' = [notifStorage EXCEPT ![SCHEDULED_KEY] = Null]
    /\ presented' = <<>>
    /\ routed' = <<>>
    /\ returned' = Null
    /\ displayed' = displayed \cup {presented'[i] : i \in 1 .. Len(presented')}
    /\ tapped' = <<>>
    /\ lastPrefs' = lastPrefs
    /\ armedUnder' = armedUnder
    /\ notifOp' = [name |-> "cancelAllScheduledNotifications", id |-> "", category |-> "",
                   quiet |-> FALSE]
    /\ UNCHANGED <<preferences, permission, now, locationNotifications, tapCallbacks>>

\* mutant of NextTime: the next occurrence is counted from the time of firing
NextTimeFromNow(n) ==
    IF n.repeatInterval = Some("daily") THEN now + 1440
    ELSE IF n.repeatInterval = Some("weekly") THEN now + 7 * 1440
    ELSE n.scheduledTime

\* the timer callback: the scheduled time of the next occurrence
NextTime(n) ==
    IF n.repeatInterval = Some("daily") THEN n.scheduledTime + 1440
    ELSE IF n.repeatInterval = Some("weekly") THEN n.scheduledTime + 7 * 1440
    ELSE n.scheduledTime

\* mutant of Repeats: the repeating flag is not consulted
RepeatsByInterval(n) == n.repeatInterval # Null

\* the timer callback: notification.repeating && notification.repeatInterval
Repeats(n) == n.repeating /\ n.repeatInterval # Null

\* mutant of TimerDelivers: the decision taken when the timer was armed is used
TimerDeliversAsArmed(t) == armedUnder[t.notification.id] = Some(TRUE)

\* the timer callback: showNotification decides when it is called
TimerDelivers(t) == Delivers(t.notification)

\* mutant of RearmsAfter: a suppressed occurrence ends the schedule
RearmsAfterDelivery(t) == Repeats(t.notification) /\ TimerDelivers(t)

\* the timer callback: the next occurrence is scheduled whatever showNotification did
RearmsAfter(t) == Repeats(t.notification)

\* the timer callback of an armed timer: the notification is shown, a repeating
\* one is scheduled again, and the id is deleted from the handle map
TimerFire(t) ==
    /\ t \in timers
    /\ now >= t.at
    /\ LET n == t.notification
           rest == timers \ {t}
           next == [n EXCEPT !.scheduledTime = NextTime(n)]
           repeats == RearmsAfter(t)
       IN  /\ presented' = IF TimerDelivers(t) THEN <<n.id>> ELSE <<>>
           /\ routed' = <<n.id>>
           /\ returned' = Null
           /\ displayed' = displayed \cup {presented'[i] : i \in 1 .. Len(presented')}
           /\ tapped' = <<>>
           /\ lastPrefs' = lastPrefs
           /\ armedUnder' = IF repeats /\ Arms(next)
                            THEN [armedUnder EXCEPT ![n.id] = Some(Delivers(n))]
                            ELSE armedUnder
           /\ timers' = IF repeats THEN ArmedTimers(rest, next) ELSE rest
           /\ scheduledTimeouts' = [scheduledTimeouts EXCEPT ![n.id] = Null]
           /\ notifOp' = [name |-> "timerFire", id |-> n.id, category |-> n.category,
                          quiet |-> isQuietHours(preferences, now)]
    /\ UNCHANGED <<preferences, permission, now, locationNotifications, tapCallbacks,
                   notifStorage>>

\* the user grants or revokes the browser's notification permission
SetPermission(state) ==
    /\ permission # state
    /\ permission' = state
    /\ presented' = <<>>
    /\ routed' = <<>>
    /\ returned' = Null
    /\ displayed' = displayed \cup {presented'[i] : i \in 1 .. Len(presented')}
    /\ tapped' = <<>>
    /\ lastPrefs' = lastPrefs
    /\ armedUnder' = armedUnder
    /\ notifOp' = [name |-> "setPermission", id |-> "", category |-> "", quiet |-> FALSE]
    /\ UNCHANGED <<preferences, now, scheduledTimeouts, timers, locationNotifications,
                   tapCallbacks, notifStorage>>

\* time passes; the platform runs a timer's callback no more than MaxLate minutes
\* after its time
AdvanceClock(t) ==
    /\ t > now
    /\ t <= MaxNow
    /\ \A tm \in timers : t <= tm.at + MaxLate
    /\ now' = t
    /\ presented' = <<>>
    /\ routed' = <<>>
    /\ returned' = Null
    /\ displayed' = displayed \cup {presented'[i] : i \in 1 .. Len(presented')}
    /\ tapped' = <<>>
    /\ lastPrefs' = lastPrefs
    /\ armedUnder' = armedUnder
    /\ notifOp' = [name |-> "advanceClock", id |-> "", category |-> "", quiet |-> FALSE]
    /\ UNCHANGED <<preferences, permission, scheduledTimeouts, timers, locationNotifications,
                   tapCallbacks, notifStorage>>

\* DEFAULT_PREFERENCES
DEFAULT_PREFERENCES ==
    [enabled |-> TRUE, categories |-> [c \in Categories |-> TRUE],
     quietHoursStart |-> Null, quietHoursEnd |-> Null]

Minute(h, m) == h * 60 + m

\* the instants the clock is observed at
Instants == {Minute(7, 0), Minute(12, 0), Minute(22, 0), Minute(23, 30), 1440 + Minute(6, 0)}

\* the quiet-hours windows the user chooses from, times as "HH:MM" strings
QuietWindows == {<<Null, Null>>, <<HHMM(22, 0), HHMM(7, 0)>>, <<HHMM(7, 0), HHMM(22, 0)>>}

CategorySettings == {[c \in Categories |-> TRUE], [c \in Categories |-> c # "system"]}

PreferenceChoices ==
    {[enabled |-> e, categories |-> c, quietHoursStart |-> w[1], quietHoursEnd |-> w[2]] :
        e \in BOOLEAN, c \in CategorySettings, w \in QuietWindows}

Contents == [id : {"n1"}, category : Categories]

Scheduled ==
    {[id |-> "n1", category |-> "system", scheduledTime |-> Minute(23, 30),
      repeating |-> FALSE, repeatInterval |-> Null]}

LocationNotifications ==
    {[id |-> "n2", category |-> "daily_event", geofenceId |-> "r1", trigger |-> "enter"]}

TapHandlers == {"h1"}

NotifInit ==
    /\ preferences = DEFAULT_PREFERENCES
    /\ permission = "default"
    /\ now = 0
    /\ scheduledTimeouts = [id \in NotificationIds |-> Null]
    /\ timers = {}
    /\ locationNotifications = [id \in NotificationIds |-> Null]
    /\ tapCallbacks = <<>>
    /\ notifStorage = [k \in {PREFERENCES_KEY, SCHEDULED_KEY} |-> Null]
    /\ presented = <<>>
    /\ routed = <<>>
    /\ returned = Null
    /\ displayed = {}
    /\ tapped = <<>>
    /\ lastPrefs = Null
    /\ armedUnder = [id \in NotificationIds |-> Null]
    /\ notifOp = [name |-> "init", id |-> "", category |-> "", quiet |-> FALSE]

NotifNext ==
    \/ \E n \in Contents : ShowNotification(n) /\ UNCHANGED <<locVars, cacheVars>>
    \/ \E p \in PreferenceChoices : SetPreferences(p) /\ UNCHANGED <<locVars, cacheVars>>
    \/ \E h \in TapHandlers : OnNotificationTap(h) /\ UNCHANGED <<locVars, cacheVars>>
    \/ \E n \in LocationNotifications :
         RegisterLocationNotification(n) /\ UNCHANGED <<locVars, cacheVars>>
    \/ \E id \in NotificationIds :
         UnregisterLocationNotification(id) /\ UNCHANGED <<locVars, cacheVars>>
    \/ \E n \in Scheduled : ScheduleNotification(n) /\ UNCHANGED <<locVars, cacheVars>>
    \/ \E id \in NotificationIds :
         CancelScheduledNotification(id) /\ UNCHANGED <<locVars, cacheVars>>
    \/ CancelAllScheduledNotifications /\ UNCHANGED <<locVars, cacheVars>>
    \/ \E t \in timers : TimerFire(t) /\ UNCHANGED <<locVars, cacheVars>>
    \/ \E st \in {"granted", "denied"} : SetPermission(st) /\ UNCHANGED <<locVars, cacheVars>>
    \/ \E t \in Instants : AdvanceClock(t) /\ UNCHANGED <<locVars, cacheVars>>

Init == LocInit /\ CacheInit /\ NotifInit

SpecLoc == Init /\ [][LocNext]_vars

SpecAdWatch == Init /\ [][AdWatchNext]_vars

SpecDailyEvent == Init /\ [][DailyEventNext]_vars

SpecNotif == Init /\ [][NotifNext]_vars

\* The quiet-hours predicate over a wider range of windows and clock times: the
\* service starts with any persisted window and notifications are shown as the
\* clock advances.
QuietTimes == {Null, HHMM(0, 0), HHMM(7, 0), HHMM(9, 0), HHMM(17, 0), HHMM(22, 0), HHMM(23, 59)}

QuietInstants ==
    {Minute(6, 0), Minute(6, 59), Minute(7, 0), Minute(8, 59), Minute(9, 0), Minute(12, 0),
     Minute(16, 59), Minute(17, 0), Minute(21, 59), Minute(22, 0), Minute(23, 30),
     Minute(23, 59), 1440, 1440 + Minute(6, 0), 1440 + Minute(7, 0)}

QuietInit ==
    /\ LocInit
    /\ CacheInit
    /\ \E s \in QuietTimes, e \in QuietTimes :
         preferences = [DEFAULT_PREFERENCES EXCEPT !.quietHoursStart = s, !.quietHoursEnd = e]
    /\ permission = "granted"
    /\ now = 0
    /\ scheduledTimeouts = [id \in NotificationIds |-> Null]
    /\ timers = {}
    /\ locationNotifications = [id \in NotificationIds |-> Null]
    /\ tapCallbacks = <<>>
    /\ notifStorage = [k \in {PREFERENCES_KEY, SCHEDULED_KEY} |-> Null]
    /\ presented = <<>>
    /\ routed = <<>>
    /\ returned = Null
    /\ displayed = {}
    /\ tapped = <<>>
    /\ lastPrefs = Null
    /\ armedUnder = [id \in NotificationIds |-> Null]
    /\ notifOp = [name |-> "init", id |-> "", category |-> "", quiet |-> FALSE]

QuietNext ==
    \/ \E n \in Contents : ShowNotification(n) /\ UNCHANGED <<locVars, cacheVars>>
    \/ \E t \in QuietInstants : AdvanceClock(t) /\ UNCHANGED <<locVars, cacheVars>>

SpecQuiet == QuietInit /\ [][QuietNext]_vars

--------------------------------------------------------------------------
\* NotificationService: pending list, process start, geofence events

\* getPendingNotifications
GetPendingNotifications ==
    /\ presented' = <<>>
    /\ routed' = <<>>
    /\ returned' = Some(getPendingNotificationsSync)
    /\ displayed' = displayed \cup {presented'[i] : i \in 1 .. Len(presented')}
    /\ tapped' = <<>>
    /\ lastPrefs' = lastPrefs
    /\ armedUnder' = armedUnder
    /\ notifOp' = [name |-> "getPendingNotifications", id |-> "", category |-> "",
                   quiet |-> FALSE]
    /\ UNCHANGED <<preferences, permission, now, scheduledTimeouts, timers,
                   locationNotifications, tapCallbacks, notifStorage>>

\* A Date in stored JSON is its ISO string; new Date(string) is the instant again
ToJSON(date) == [iso |-> date]
NewDate(value) == value.iso

\* a ScheduledNotification as JSON.stringify writes it
SavedForm(n) == [n EXCEPT !.scheduledTime = ToJSON(n.scheduledTime)]

\* mutant of loadPreferences: preferences that do not parse switch notifications off
loadPreferencesOffWhenMalformed ==
    IF ~available \/ notifStorage[PREFERENCES_KEY] = Null THEN DEFAULT_PREFERENCES
    ELSE IF IsMalformed(notifStorage[PREFERENCES_KEY])
         THEN [DEFAULT_PREFERENCES EXCEPT !.enabled = FALSE]
    ELSE ParsePreferences(notifStorage[PREFERENCES_KEY][1])

\* loadPreferences: the defaults when the key is absent or getItem or JSON.parse
\* throws
loadPreferences ==
    IF ~available \/ notifStorage[PREFERENCES_KEY] = Null
       \/ IsMalformed(notifStorage[PREFERENCES_KEY])
    THEN DEFAULT_PREFERENCES
    ELSE ParsePreferences(notifStorage[PREFERENCES_KEY][1])

\* restoreScheduledNotifications: is the saved entry scheduled again
StillAhead(entry) == NewDate(entry.scheduledTime) > now

\* mutant of ForEachSaved: only the first saved entry is looked at
ForEachSavedFirstOnly(saved, armed, map) ==
    IF saved = <<>> THEN [timers |-> armed, map |-> map]
    ELSE LET entry == Head(saved)
             n == [entry EXCEPT !.scheduledTime = NewDate(entry.scheduledTime)]
         IN  IF StillAhead(entry)
             THEN [timers |-> ArmedTimers(armed, n), map |-> ArmedMap(armed, map, n)]
             ELSE [timers |-> armed, map |-> map]

\* restoreScheduledNotifications, the forEach over the saved array: the armed
\* timers and the handle map after the entries of `saved`
RECURSIVE ForEachSaved(_, _, _)
ForEachSaved(saved, armed, map) ==
    IF saved = <<>> THEN [timers |-> armed, map |-> map]
    ELSE LET entry == Head(saved)
             n == [entry EXCEPT !.scheduledTime = NewDate(entry.scheduledTime)]
         IN  IF StillAhead(entry)
             THEN ForEachSaved(Tail(saved), ArmedTimers(armed, n), ArmedMap(armed, map, n))
             ELSE ForEachSaved(Tail(saved), armed, map)

restoreScheduledNotifications ==
    IF ~available \/ notifStorage[SCHEDULED_KEY] = Null \/ IsMalformed(notifStorage[SCHEDULED_KEY])
    THEN [timers |-> {}, map |-> [id \in NotificationIds |-> Null]]
    ELSE ForEachSaved(notifStorage[SCHEDULED_KEY][1], {}, [id \in NotificationIds |-> Null])

\* The page is loaded again: the timers of the old page are gone, and the
\* constructor of the new NotificationService runs over the stored data
Restart ==
    /\ preferences' = loadPreferences
    /\ timers' = restoreScheduledNotifications.timers
    /\ scheduledTimeouts' = restoreScheduledNotifications.map
    /\ locationNotifications' = [id \in NotificationIds |-> Null]
    /\ tapCallbacks' = <<>>
    /\ presented' = <<>>
    /\ routed' = <<>>
    /\ returned' = Null
    /\ displayed' = {}
    /\ tapped' = <<>>
    /\ lastPrefs' = lastPrefs
    /\ armedUnder' = [id \in NotificationIds |-> Null]
    /\ notifOp' = [name |-> "restart", id |-> "", category |-> "", quiet |-> FALSE]
    /\ UNCHANGED <<permission, now, notifStorage>>

\* mutant of Matches: the trigger is not consulted
MatchesAnyTrigger(n, regionId, event) == n.geofenceId = regionId

\* handleGeofenceEvent: is the location notification shown for the event
Matches(n, regionId, event) ==
    /\ n.geofenceId = regionId
    /\ (n.trigger = "both" \/ n.trigger = event)

\* the ids locationNotifications.forEach visits; the order of visit is taken by id
NotificationOrder == <<"n1", "n2">>

\* handleGeofenceEvent: every matching location notification goes to showNotification
HandleGeofenceEvent(regionId, event) ==
    LET shown == SelectSeq(NotificationOrder,
                     LAMBDA id : /\ locationNotifications[id] # Null
                                 /\ Matches(locationNotifications[id][1], regionId, event))
    IN  /\ routed' = shown
        /\ presented' = SelectSeq(shown, LAMBDA id : Delivers(locationNotifications[id][1]))
        /\ returned' = Null
        /\ displayed' = displayed \cup {presented'[i] : i \in 1 .. Len(presented')}
        /\ tapped' = <<>>
        /\ lastPrefs' = lastPrefs
        /\ armedUnder' = armedUnder
        /\ notifOp' = [name |-> "handleGeofenceEvent", id |-> regionId, category |-> event,
                       quiet |-> isQuietHours(preferences, now)]
        /\ UNCHANGED <<preferences, permission, now, scheduledTimeouts, timers,
                       locationNotifications, tapCallbacks, notifStorage>>

\* ---- the scheduler: schedule, cancel, timers, restart ----

Sched(id, time, interval) ==
    [id |-> id, category |-> "system", scheduledTime |-> time,
     repeating |-> interval # Null, repeatInterval |-> interval]

ScheduleChoices ==
    {Sched("n1", Minute(23, 30), Null), Sched("n1", Minute(23, 30), Some("daily")),
     Sched("n2", Minute(23, 30), Some("weekly")), Sched("n2", Minute(7, 0), Null)}

TimerInstants == {Minute(7, 0), Minute(23, 30), 1440, 1440 + Minute(23, 30)}

TimersNext ==
    \/ \E n \in ScheduleChoices : ScheduleNotification(n) /\ UNCHANGED <<locVars, cacheVars>>
    \/ \E id \in NotificationIds :
         CancelScheduledNotification(id) /\ UNCHANGED <<locVars, cacheVars>>
    \/ CancelAllScheduledNotifications /\ UNCHANGED <<locVars, cacheVars>>
    \/ \E t \in timers : TimerFire(t) /\ UNCHANGED <<locVars, cacheVars>>
    \/ \E t \in TimerInstants : AdvanceClock(t) /\ UNCHANGED <<locVars, cacheVars>>
    \/ \E st \in {"granted", "denied"} : SetPermission(st) /\ UNCHANGED <<locVars, cacheVars>>
    \/ GetPendingNotifications /\ UNCHANGED <<locVars, cacheVars>>
    \/ Restart /\ UNCHANGED <<locVars, cacheVars>>

SpecTimers == Init /\ [][TimersNext]_vars

\* ---- process start over a schedule another page left in the store ----

SavedEntries ==
    {SavedForm(Sched("n1", Minute(7, 0), Null)), SavedForm(Sched("n1", Minute(23, 30), Some("daily"))),
     SavedForm(Sched("n2", Minute(23, 30), Null)), SavedForm(Sched("n2", 1440 + Minute(23, 30), Null))}

SavedSchedules == UNION {[1 .. k -> SavedEntries] : k \in 0 .. MaxSaved}

RestoreInit ==
    /\ LocInit
    /\ CacheInit
    /\ preferences = DEFAULT_PREFERENCES
    /\ permission = "granted"
    /\ now = 0
    /\ \E saved \in SavedSchedules :
         notifStorage = [k \in {PREFERENCES_KEY, SCHEDULED_KEY} |->
                           IF k = SCHEDULED_KEY THEN Some(saved) ELSE Null]
    /\ timers = restoreScheduledNotifications.timers
    /\ scheduledTimeouts = restoreScheduledNotifications.map
    /\ locationNotifications = [id \in NotificationIds |-> Null]
    /\ tapCallbacks = <<>>
    /\ presented = <<>>
    /\ routed = <<>>
    /\ returned = Null
    /\ displayed = {}
    /\ tapped = <<>>
    /\ lastPrefs = Null
    /\ armedUnder = [id \in NotificationIds |-> Null]
    /\ notifOp = [name |-> "init", id |-> "", category |-> "", quiet |-> FALSE]

RestoreNext ==
    \/ Restart /\ UNCHANGED <<locVars, cacheVars>>
    \/ \E t \in timers : TimerFire(t) /\ UNCHANGED <<locVars, cacheVars>>
    \/ \E t \in TimerInstants : AdvanceClock(t) /\ UNCHANGED <<locVars, cacheVars>>

SpecRestore == RestoreInit /\ [][RestoreNext]_vars

\* ---- geofence events and location notifications ----

BridgeRegions ==
    {[id |-> "r1", center |-> 0, radiusMeters |-> 150, isActive |-> FALSE],
     [id |-> "r2", center |-> 2, radiusMeters |-> 222, isActive |-> FALSE]}

BridgeNotifications ==
    {[id |-> "n1", category |-> "daily_event", geofenceId |-> "r1", trigger |-> "enter"],
     [id |-> "n1", category |-> "system", geofenceId |-> "r2", trigger |-> "both"],
     [id |-> "n2", category |-> "daily_event", geofenceId |-> "r1", trigger |-> "exit"]}

BridgeInit ==
    /\ LocInit
    /\ CacheInit
    /\ preferences = DEFAULT_PREFERENCES
    /\ permission = "granted"
    /\ now = 0
    /\ scheduledTimeouts = [id \in NotificationIds |-> Null]
    /\ timers = {}
    /\ locationNotifications = [id \in NotificationIds |-> Null]
    /\ tapCallbacks = <<>>
    /\ notifStorage = [k \in {PREFERENCES_KEY, SCHEDULED_KEY} |-> Null]
    /\ presented = <<>>
    /\ routed = <<>>
    /\ returned = Null
    /\ displayed = {}
    /\ tapped = <<>>
    /\ lastPrefs = Null
    /\ armedUnder = [id \in NotificationIds |-> Null]
    /\ notifOp = [name |-> "init", id |-> "", category |-> "", quiet |-> FALSE]

BridgeNext ==
    \/ \E region \in BridgeRegions : RegisterGeofence(region) /\ UNCHANGED <<cacheVars, notifVars>>
    \/ StartLocationUpdates /\ UNCHANGED <<cacheVars, notifVars>>
    \/ \E lat \in Latitudes : WatchSample(lat) /\ UNCHANGED <<cacheVars, notifVars>>
    \/ \E n \in BridgeNotifications :
         RegisterLocationNotification(n) /\ UNCHANGED <<locVars, cacheVars>>
    \/ \E id \in NotificationIds :
         UnregisterLocationNotification(id) /\ UNCHANGED <<locVars, cacheVars>>
    \/ \E regionId \in RegionIds, event \in {"enter", "exit"} :
         HandleGeofenceEvent(regionId, event) /\ UNCHANGED <<locVars, cacheVars>>

SpecBridge == BridgeInit /\ [][BridgeNext]_vars

--------------------------------------------------------------------------
\* Taps, preferences, clearing, and storage that fails or holds bad data

\* mutant of TapCalls: the handlers are called last registered first
TapCallsLastFirst(id) ==
    [i \in 1 .. Len(tapCallbacks) |->
        [handler |-> tapCallbacks[Len(tapCallbacks) + 1 - i], id |-> id]]

\* onclick: this.tapCallbacks.forEach((callback) => callback(notification))
TapCalls(id) == [i \in 1 .. Len(tapCallbacks) |-> [handler |-> tapCallbacks[i], id |-> id]]

\* the user taps a displayed notification: onclick runs and closes it
Tap(id) ==
    /\ id \in displayed
    /\ tapped' = TapCalls(id)
    /\ displayed' = displayed \ {id}
    /\ presented' = <<>>
    /\ routed' = <<>>
    /\ returned' = Null
    /\ notifOp' = [name |-> "tap", id |-> id, category |-> "", quiet |-> FALSE]
    /\ UNCHANGED <<preferences, permission, now, scheduledTimeouts, timers,
                   locationNotifications, tapCallbacks, notifStorage, lastPrefs, armedUnder>>

\* getPreferences
GetPreferences ==
    /\ returned' = Some(preferences)
    /\ presented' = <<>>
    /\ routed' = <<>>
    /\ tapped' = <<>>
    /\ notifOp' = [name |-> "getPreferences", id |-> "", category |-> "", quiet |-> FALSE]
    /\ UNCHANGED <<preferences, permission, now, scheduledTimeouts, timers,
                   locationNotifications, tapCallbacks, notifStorage, displayed, lastPrefs,
                   armedUnder>>

\* mutant of StartsWithHerenow: every key is taken to carry the prefix
StartsWithAnything(key) == TRUE

\* key.startsWith('herenow_'): the keys of the store whose text begins so; the
\* key of the ad-watch counter, "undefined", does not
StartsWithHerenow(key) ==
    key \in {DAILY_EVENT_CACHE, LAST_EVENT_DATE, PREFERENCES_KEY, SCHEDULED_KEY}

\* PersistenceService.clear: one synchronous pass over localStorage, which holds
\* the keys of both services; nothing is removed when localStorage throws
Clear ==
    /\ storage' = [k \in StorageKeys |->
                     IF available /\ StartsWithHerenow(k) THEN Null ELSE storage[k]]
    /\ notifStorage' = [k \in {PREFERENCES_KEY, SCHEDULED_KEY} |->
                          IF available /\ StartsWithHerenow(k) THEN Null ELSE notifStorage[k]]
    /\ cacheOp' = [name |-> "clear", result |-> Null, today |-> day, alone |-> tasks = <<>>,
                   error |-> FALSE]
    /\ UNCHANGED <<day, tasks, adReturns, adOverlap, lastCached, available, zone>>
    /\ UNCHANGED <<preferences, permission, now, scheduledTimeouts, timers,
                   locationNotifications, tapCallbacks, presented, routed, returned,
                   displayed, tapped, lastPrefs, armedUnder, notifOp>>

\* localStorage starts or stops working (private mode, quota, blocked storage)
SetAvailable(works) ==
    /\ available # works
    /\ available' = works
    /\ cacheOp' = [name |-> "setAvailable", result |-> Null, today |-> day,
                   alone |-> tasks = <<>>, error |-> FALSE]
    /\ UNCHANGED <<storage, day, tasks, adReturns, adOverlap, lastCached, zone>>

\* ---- taps ----

TapContents == [id : NotificationIds, category : {"system"}]

TapHandlerChoices == {"h1", "h2"}

TapNext ==
    \/ \E n \in TapContents : ShowNotification(n) /\ UNCHANGED <<locVars, cacheVars>>
    \/ \E h \in TapHandlerChoices : OnNotificationTap(h) /\ UNCHANGED <<locVars, cacheVars>>
    \/ \E id \in NotificationIds : Tap(id) /\ UNCHANGED <<locVars, cacheVars>>
    \/ \E st \in {"granted", "denied"} : SetPermission(st) /\ UNCHANGED <<locVars, cacheVars>>
    \/ Restart /\ UNCHANGED <<locVars, cacheVars>>

SpecTap == BridgeInit /\ [][TapNext]_vars

\* ---- preferences ----

PrefsNext ==
    \/ \E p \in PreferenceChoices : SetPreferences(p) /\ UNCHANGED <<locVars, cacheVars>>
    \/ GetPreferences /\ UNCHANGED <<locVars, cacheVars>>
    \/ \E n \in Contents : ShowNotification(n) /\ UNCHANGED <<locVars, cacheVars>>
    \/ \E st \in {"granted", "denied"} : SetPermission(st) /\ UNCHANGED <<locVars, cacheVars>>
    \/ Restart /\ UNCHANGED <<locVars, cacheVars>>

SpecPrefs == Init /\ [][PrefsNext]_vars

\* ---- clearing all data ----

ClearEvents == {[type |-> "DailyEvent", id |-> "event-001", startTime |-> "Date"]}

ClearPreferences == {[DEFAULT_PREFERENCES EXCEPT !.enabled = FALSE]}

ClearInstants == {Minute(23, 30)}

ClearNext ==
    \/ Clear /\ UNCHANGED locVars
    \/ tasks = <<>> /\ RecordAdWatchCall /\ UNCHANGED <<locVars, notifVars>>
    \/ RecordAdWatchResume /\ UNCHANGED <<locVars, notifVars>>
    \/ \E event \in ClearEvents : CacheDailyEventCall(event) /\ UNCHANGED <<locVars, notifVars>>
    \/ CacheDailyEventResume /\ UNCHANGED <<locVars, notifVars>>
    \/ \E p \in ClearPreferences : SetPreferences(p) /\ UNCHANGED <<locVars, cacheVars>>
    \/ \E n \in Scheduled : ScheduleNotification(n) /\ UNCHANGED <<locVars, cacheVars>>
    \/ \E t \in timers : TimerFire(t) /\ UNCHANGED <<locVars, cacheVars>>
    \/ \E t \in ClearInstants : AdvanceClock(t) /\ UNCHANGED <<locVars, cacheVars>>

SpecClear == BridgeInit /\ [][ClearNext]_vars

\* ---- storage that does not work ----

DegradedNext ==
    \/ SetAvailable(FALSE) /\ UNCHANGED <<locVars, notifVars>>
    \/ RecordAdWatchCall /\ UNCHANGED <<locVars, notifVars>>
    \/ RecordAdWatchResume /\ UNCHANGED <<locVars, notifVars>>
    \/ GetAdWatchCount /\ UNCHANGED <<locVars, notifVars>>
    \/ \E event \in ClearEvents : CacheDailyEventCall(event) /\ UNCHANGED <<locVars, notifVars>>
    \/ CacheDailyEventResume /\ UNCHANGED <<locVars, notifVars>>
    \/ GetCachedDailyEventCall /\ UNCHANGED <<locVars, notifVars>>
    \/ GetCachedDailyEventResume /\ UNCHANGED <<locVars, notifVars>>

SpecDegraded == Init /\ [][DegradedNext]_vars

\* ---- stored texts that do not parse ----

StoredChoices(valid) == {Null, Malformed, Some(valid)}

MalformedInit ==
    /\ LocInit
    /\ \E e \in StoredChoices(JsonStringify([type |-> "DailyEvent", id |-> "event-001",
                                            startTime |-> "Date"])),
          d \in StoredChoices(DateString(0)),
          a \in StoredChoices(AdData(0, 2)) :
         storage = [k \in StorageKeys |->
                      IF k = DAILY_EVENT_CACHE THEN e ELSE IF k = LAST_EVENT_DATE THEN d ELSE a]
    /\ day = 0
    /\ tasks = <<>>
    /\ cacheOp = [name |-> "init", result |-> Null, today |-> 0, alone |-> TRUE, error |-> FALSE]
    /\ adReturns = <<>>
    /\ adOverlap = FALSE
    /\ lastCached = Null
    /\ available = TRUE
    /\ zone = 0
    /\ \E p \in StoredChoices(PreferencesText([DEFAULT_PREFERENCES EXCEPT !.enabled = FALSE])),
          s \in StoredChoices(<<SavedForm(Sched("n1", Minute(23, 30), Null))>>) :
         notifStorage = [k \in {PREFERENCES_KEY, SCHEDULED_KEY} |->
                           IF k = PREFERENCES_KEY THEN p ELSE s]
    /\ permission = "granted"
    /\ now = 0
    /\ preferences = loadPreferences
    /\ timers = restoreScheduledNotifications.timers
    /\ scheduledTimeouts = restoreScheduledNotifications.map
    /\ locationNotifications = [id \in NotificationIds |-> Null]
    /\ tapCallbacks = <<>>
    /\ presented = <<>>
    /\ routed = <<>>
    /\ returned = Null
    /\ displayed = {}
    /\ tapped = <<>>
    /\ lastPrefs = Null
    /\ armedUnder = [id \in NotificationIds |-> Null]
    /\ notifOp = [name |-> "init", id |-> "", category |-> "", quiet |-> FALSE]

MalformedNext ==
    \/ RecordAdWatchCall /\ UNCHANGED <<locVars, notifVars>>
    \/ RecordAdWatchResume /\ UNCHANGED <<locVars, notifVars>>
    \/ GetCachedDailyEventCall /\ UNCHANGED <<locVars, notifVars>>
    \/ GetCachedDailyEventResume /\ UNCHANGED <<locVars, notifVars>>
    \/ Restart /\ UNCHANGED <<locVars, cacheVars>>

SpecMalformed == MalformedInit /\ [][MalformedNext]_vars

--------------------------------------------------------------------------
\* Geofence monitor properties

CountEv(seq, id, ev) ==
    Cardinality({i \in 1 .. Len(seq) : seq[i].id = id /\ seq[i].event = ev})

RegionOf(id) == geofences[IndexOf(id)]

\* C1: on every watch sample each registered region's callback is invoked with
\* 'enter' exactly once when the region's state was outside and the sample is
\* within the radius, with 'exit' exactly once when the state was inside and the
\* sample is beyond the radius, and not at all when the state is unchanged; the
\* state becomes the sample's inside/outside.
C1_EdgeTriggered ==
    [][locOp'.name = "watchSample" =>
        /\ Len(geofences') = Len(geofences)
        /\ \A i \in 1 .. Len(geofences) :
             LET r == geofences[i]
                 inside == calculateDistance(lastLocation'[1], r.center) <= r.radiusMeters
             IN  /\ geofences'[i].id = r.id
                 /\ geofences'[i].isActive = inside
                 /\ CountEv(fired', r.id, "enter") = (IF ~r.isActive /\ inside THEN 1 ELSE 0)
                 /\ CountEv(fired', r.id, "exit") = (IF r.isActive /\ ~inside THEN 1 ELSE 0)
    ]_vars

\* C1 witness: a sample evaluated a region that had entered before and is still
\* inside, and no callback was invoked
C1_Witness ==
    /\ locOp.name = "watchSample"
    /\ fired = <<>>
    /\ \E i \in 1 .. Len(geofences) :
         /\ geofences[i].isActive
         /\ firstEv[geofences[i].id] = "enter"

\* C2: after registerGeofence, if a last-known location exists within the radius
\* the region is inside and the callback was invoked with 'enter' exactly once;
\* otherwise no callback was invoked.
C2_RegisterFiresEnter ==
    locOp.name = "registerGeofence" =>
        LET r == RegionOf(locOp.id)
            within == /\ lastLocation # Null
                      /\ calculateDistance(lastLocation[1], r.center) <= r.radiusMeters
        IN  /\ IsRegistered(locOp.id)
            /\ within => r.isActive /\ fired = <<[id |-> locOp.id, event |-> "enter"]>>
            /\ ~within => fired = <<>>

\* C2 witness: a region registered with the last-known location exactly on its
\* boundary fired 'enter'
C2_Witness ==
    /\ locOp.name = "registerGeofence"
    /\ lastLocation # Null
    /\ calculateDistance(lastLocation[1], RegionOf(locOp.id).center) = RegionOf(locOp.id).radiusMeters
    /\ fired = <<[id |-> locOp.id, event |-> "enter"]>>

\* C3: a region registered with no last-known location, or one outside the
\* radius, is in state outside whatever isActive the caller passed, and the first
\* event emitted for a region is never 'exit'.
C3_InitialStateOutside ==
    /\ (locOp.name = "registerGeofence" /\ ~locOp.flag) => ~RegionOf(locOp.id).isActive
    /\ \A id \in RegionIds : firstEv[id] # "exit"

\* C4: unregisterGeofence removes the region and invokes no callback, leaves the
\* other regions and the last-known location alone, changes nothing for an id
\* that is not registered; and callbacks are only ever invoked for regions that
\* are registered.
C4_UnregisterSilent ==
    [][/\ locOp'.name = "unregisterGeofence" =>
            LET id == locOp'.id IN
            /\ fired' = <<>>
            /\ \A j \in 1 .. Len(geofences') : geofences'[j].id # id
            /\ \A i \in 1 .. Len(geofences) :
                 geofences[i].id # id => \E j \in 1 .. Len(geofences') : geofences'[j] = geofences[i]
            /\ (\A i \in 1 .. Len(geofences) : geofences[i].id # id) => geofences' = geofences
            /\ lastLocation' = lastLocation
            /\ watchId' = watchId
       /\ \A k \in 1 .. Len(fired') :
            \E j \in 1 .. Len(geofences') : geofences'[j].id = fired'[k].id
    ]_vars

\* C4 witness: a region whose state was inside has been unregistered
C4_Witness ==
    /\ locOp.name = "unregisterGeofence"
    /\ locOp.flag
    /\ fired = <<>>
    /\ Len(geofences) = 1

--------------------------------------------------------------------------
\* Day-scoped cache properties

\* C5: as long as the recordAdWatch calls of a day are awaited one after the
\* other, the k-th of them returns k, so the first call of a new day returns 1
\* whatever the stored count was; and a call that ran alone leaves its day-stamp
\* and the count it returned in the store.
C5_SequentialCount ==
    ~adOverlap =>
        /\ \A i \in 1 .. Len(adReturns) : adReturns[i] = i
        /\ (cacheOp.name = "recordAdWatch" /\ cacheOp.alone) =>
              /\ storage[AD_WATCH_COUNT] # Null
              /\ storage[AD_WATCH_COUNT][1].date = cacheOp.today
              /\ storage[AD_WATCH_COUNT][1].count = cacheOp.result[1]

\* C5 witness: three awaited calls on a day after the first have returned 1, 2, 3
C5_Witness ==
    /\ ~adOverlap
    /\ day > 0
    /\ cacheOp.name = "recordAdWatch"
    /\ cacheOp.alone
    /\ adReturns = <<1, 2, 3>>

\* C6: recordAdWatch calls never lose an update, also when they are started
\* without awaiting one another: the values returned within a day are strictly
\* increasing, and once no call is pending the stored count of today is the
\* number of calls made today.
C6_NoLostUpdate ==
    /\ \A i, j \in 1 .. Len(adReturns) : i < j => adReturns[i] < adReturns[j]
    /\ (tasks = <<>> /\ adReturns # <<>>) =>
          /\ storage[AD_WATCH_COUNT] # Null
          /\ storage[AD_WATCH_COUNT][1].date = day
          /\ storage[AD_WATCH_COUNT][1].count = Len(adReturns)

\* the value getCachedDailyEvent is to return for an event cached today: every
\* field as passed, a Date field as its ISO string
AsStored(event) == [type |-> "DailyEvent", id |-> event.id, startTime |-> "string"]

C8_UnlockedIffThreeToday ==
    (cacheOp.name = "isEventUnlocked" /\ ~adOverlap) =>
        cacheOp.result = Some(Len(adReturns) >= 3)

\* C8 witness: isEventUnlocked returned false over a stored count of 3 or more
\* that belongs to an earlier day
C8_Witness ==
    /\ cacheOp.name = "isEventUnlocked"
    /\ ~adOverlap
    /\ cacheOp.result = Some(FALSE)
    /\ storage[AD_WATCH_COUNT] # Null
    /\ storage[AD_WATCH_COUNT][1].count >= 3
    /\ storage[AD_WATCH_COUNT][1].date < day

--------------------------------------------------------------------------
\* Notification suppression properties

\* minutes since midnight of an "HH:MM" string
MinutesOf(str) ==
    ((str[1] - 48) * 10 + (str[2] - 48)) * 60 + (str[4] - 48) * 10 + (str[5] - 48)

\* the quiet-hours window as the specification states it, over minutes of the day
InQuietWindow(prefs, t) ==
    IF prefs.quietHoursStart = Null \/ prefs.quietHoursEnd = Null THEN FALSE
    ELSE LET start == MinutesOf(prefs.quietHoursStart)
             end == MinutesOf(prefs.quietHoursEnd)
             tod == t % 1440
         IN  IF start > end THEN tod >= start \/ tod < end
             ELSE start <= tod /\ tod < end

\* C9: showNotification displays a notification only if notifications are
\* enabled, the request's category is enabled and the time is outside quiet
\* hours; when one of these fails nothing is displayed and preferences, timers,
\* handle map, location registry, tap handlers and stored data are unchanged.
C9_ShowIsGated ==
    [][notifOp'.name = "showNotification" =>
        LET allowed == /\ preferences.enabled
                       /\ preferences.categories[notifOp'.category]
                       /\ ~InQuietWindow(preferences, now)
        IN  /\ presented' # <<>> => allowed
            /\ ~allowed =>
                 /\ presented' = <<>>
                 /\ UNCHANGED <<preferences, permission, now, scheduledTimeouts, timers,
                                locationNotifications, tapCallbacks, notifStorage>>
    ]_vars

\* C9 witness: a notification was suppressed by quiet hours alone, with a timer
\* armed, a location notification registered and a tap handler registered
C9_Witness ==
    /\ notifOp.name = "showNotification"
    /\ presented = <<>>
    /\ permission = "granted"
    /\ preferences.enabled
    /\ preferences.categories[notifOp.category]
    /\ InQuietWindow(preferences, now)
    /\ timers # {}
    /\ tapCallbacks # <<>>
    /\ locationNotifications["n2"] # Null

\* C10: the quiet-hours predicate the service evaluates is false when start or
\* end is absent, (now >= start or now < end) when start > end, and
\* (start <= now < end) otherwise, over times of day.
C10_QuietHoursWindow ==
    notifOp.name = "showNotification" => notifOp.quiet = InQuietWindow(preferences, now)

\* C10 witness: window 22:00-07:00 evaluated at 06:00 of the next day is quiet
C10_Witness ==
    /\ notifOp.name = "showNotification"
    /\ preferences.quietHoursStart = HHMM(22, 0)
    /\ preferences.quietHoursEnd = HHMM(7, 0)
    /\ now = 1440 + Minute(6, 0)
    /\ notifOp.quiet

--------------------------------------------------------------------------
\* Notification scheduler properties

TimersOf(armed, id) == {t \in armed : t.notification.id = id}

\* C11: scheduleNotification with scheduledTime <= now arms no timer and shows
\* nothing, resolves with the notification id, and leaves the armed timers and
\* the handle map as they were.
C11_PastScheduleIsNoOp ==
    [][\A n \in ScheduleChoices :
         (ScheduleNotification(n) /\ n.scheduledTime <= now) =>
            /\ timers' = timers
            /\ scheduledTimeouts' = scheduledTimeouts
            /\ presented' = <<>>
            /\ returned' = Some(n.id)
    ]_vars

\* C11 witness: a notification was scheduled for exactly the current time while
\* a timer of another id was armed; the call resolved with its id and no timer
\* of that id exists
C11_Witness ==
    /\ notifOp.name = "scheduleNotification"
    /\ notifOp.id = "n2"
    /\ returned = Some("n2")
    /\ now = Minute(7, 0)
    /\ TimersOf(timers, "n2") = {}
    /\ TimersOf(timers, "n1") # {}

\* C12: every notification id has at most one armed timer, and every armed timer
\* is the one the handle map records for its id.
C12_OneTimerPerId ==
    /\ \A id \in NotificationIds : Cardinality(TimersOf(timers, id)) <= 1
    /\ \A t \in timers : scheduledTimeouts[t.notification.id] = Some(t.handle)

\* the minutes of a repeat interval
IntervalMinutes(interval) == IF interval = Some("weekly") THEN 7 * 1440 ELSE 1440

C14_CancelDisarms ==
    [][\A id \in NotificationIds :
         CancelScheduledNotification(id) =>
            /\ TimersOf(timers', id) = {}
            /\ timers' = timers \ TimersOf(timers, id)
    ]_vars

\* C15: after cancelAllScheduledNotifications no timer is armed and the
\* persisted schedule is removed, so nothing scheduled before the call is shown
\* later and a restart arms nothing.
C15_CancelAllDisarms ==
    [][CancelAllScheduledNotifications =>
         /\ timers' = {}
         /\ notifStorage'[SCHEDULED_KEY] = Null
         /\ restoreScheduledNotifications'.timers = {}
    ]_vars

\* the ids of the persisted schedule; an absent key is the empty schedule
PersistedIds ==
    IF notifStorage[SCHEDULED_KEY] = Null THEN {}
    ELSE {notifStorage[SCHEDULED_KEY][1][i].id : i \in 1 .. Len(notifStorage[SCHEDULED_KEY][1])}

\* the ids with an armed timer
PendingIds == {t.notification.id : t \in timers}

\* C16: the persisted schedule always holds exactly the pending notifications,
\* so that a restart before their time arms them again.
C16_PersistedEqualsPending == PersistedIds = PendingIds

\* C17: a process start arms one timer for each persisted entry whose
\* scheduledTime is after the current time, targeted at that time, and none
\* for an entry whose scheduledTime is the current time or earlier; it shows
\* nothing.
C17_RestoreOnlyFuture ==
    [][Restart =>
         LET saved == IF notifStorage[SCHEDULED_KEY] = Null THEN <<>>
                      ELSE notifStorage[SCHEDULED_KEY][1]
             ahead == {i \in 1 .. Len(saved) : saved[i].scheduledTime.iso > now}
             IsOf(u, i) == /\ u.at = saved[i].scheduledTime.iso
                           /\ u.notification.id = saved[i].id
                           /\ u.notification.repeatInterval = saved[i].repeatInterval
         IN  /\ Cardinality(timers') = Cardinality(ahead)
             /\ \A i \in ahead : \E u \in timers' : IsOf(u, i)
             /\ \A u \in timers' : \E i \in ahead : IsOf(u, i)
             /\ presented' = <<>>
    ]_vars

\* C17 witness: a process start at 23:30 over a schedule holding an entry for
\* 23:30 of the same day and one for 23:30 of the next day armed the latter only
C17_Witness ==
    /\ notifOp.name = "restart"
    /\ now = Minute(23, 30)
    /\ notifStorage[SCHEDULED_KEY] # Null
    /\ \E i, j \in 1 .. Len(notifStorage[SCHEDULED_KEY][1]) :
         /\ notifStorage[SCHEDULED_KEY][1][i].scheduledTime.iso = Minute(23, 30)
         /\ notifStorage[SCHEDULED_KEY][1][j].scheduledTime.iso = 1440 + Minute(23, 30)
    /\ Cardinality(timers) = 1
    /\ \A u \in timers : u.at = 1440 + Minute(23, 30)

\* C18: getPendingNotifications resolves with exactly the notifications that
\* have an armed timer.
C18_PendingListIsComplete ==
    notifOp.name = "getPendingNotifications" =>
        {returned[1][i].id : i \in 1 .. Len(returned[1])} = PendingIds

--------------------------------------------------------------------------
\* Geofence routing properties

\* the registered location notifications the specification routes for an event
RoutedFor(registry, regionId, event) ==
    {id \in NotificationIds :
        /\ registry[id] # Null
        /\ registry[id][1].geofenceId = regionId
        /\ registry[id][1].trigger \in {"both", event}}

\* C19: handleGeofenceEvent(regionId, event) passes to showNotification each
\* registered location notification of that region whose trigger is 'both' or
\* the event, once, and no other; what it displays is among those. (The record
\* of the operation carries the region in id and the event in category.)
C19_RoutesMatchingOnly ==
    [][notifOp'.name = "handleGeofenceEvent" =>
         /\ \A id \in NotificationIds :
              Cardinality({i \in 1 .. Len(routed') : routed'[i] = id}) =
                 (IF id \in RoutedFor(locationNotifications', notifOp'.id, notifOp'.category)
                  THEN 1 ELSE 0)
         /\ \A i \in 1 .. Len(presented') : \E j \in 1 .. Len(routed') : routed'[j] = presented'[i]
    ]_vars

\* C19 witness: 'enter' of region r1 displayed the notification registered for
\* (r1, enter) and not the one registered for (r1, exit)
C19_Witness ==
    /\ notifOp.name = "handleGeofenceEvent"
    /\ notifOp.id = "r1"
    /\ notifOp.category = "enter"
    /\ routed = <<"n1">>
    /\ presented = <<"n1">>
    /\ locationNotifications["n2"] # Null
    /\ locationNotifications["n2"][1].geofenceId = "r1"

\* C20: every operation of the location service that invokes a geofence callback
\* with an event of region r also passes the location notifications registered
\* for r and that event to showNotification.
C20_TransitionsReachScheduler ==
    [][locVars' # locVars =>
         \A k \in 1 .. Len(fired') :
            \A id \in RoutedFor(locationNotifications', fired'[k].id, fired'[k].event) :
               /\ notifOp'.name = "handleGeofenceEvent"
               /\ \E j \in 1 .. Len(routed') : routed'[j] = id
    ]_vars

--------------------------------------------------------------------------
\* Tap handlers, location subscription and one-shot location requests

\* C21: when the user taps a displayed notification every registered tap
\* handler is called exactly once with that notification, in the order of
\* registration.
C21_TapCallsAllInOrder ==
    [][\A id \in NotificationIds :
         Tap(id) =>
            /\ Len(tapped') = Len(tapCallbacks)
            /\ \A i \in 1 .. Len(tapCallbacks) :
                 /\ tapped'[i].handler = tapCallbacks[i]
                 /\ tapped'[i].id = id
    ]_vars

\* C21 witness: with h2 registered before h1, a tap on n1 called h2 and then h1
C21_Witness ==
    /\ notifOp.name = "tap"
    /\ tapCallbacks = <<"h2", "h1">>
    /\ tapped = <<[handler |-> "h2", id |-> "n1"], [handler |-> "h1", id |-> "n1"]>>

\* C22: at most one platform watch is started and not cleared, and it is the
\* one the service holds; stopLocationUpdates with none running changes nothing.
C22_AtMostOneWatch ==
    [][/\ Cardinality(watches') <= 1
       /\ watches' = (IF watchId' = Null THEN {} ELSE {watchId'[1]})
       /\ (locOp'.name = "startLocationUpdates") => watchId' # Null
       /\ (locOp'.name = "stopLocationUpdates") => watchId' = Null
       /\ (locOp'.name = "stopLocationUpdates" /\ watchId = Null) =>
             UNCHANGED <<watches, watchId, lastLocation, geofences>>
    ]_vars

\* C22 witness: startLocationUpdates was called while a watch was running and
\* one watch is active
C22_Witness ==
    /\ locOp.name = "startLocationUpdates"
    /\ locOp.flag
    /\ Cardinality(watches) = 1

\* C23: getCurrentLocation on success sets the last-known location to the
\* sample it resolves with; on a platform error it rejects with an error and
\* leaves the last-known location and the regions with their states unchanged,
\* and invokes no geofence callback.
C23_GetCurrentLocation ==
    [][locOp'.name = "getCurrentLocation" =>
         IF locOp'.flag
         THEN /\ lastLocation' = Some(locOp'.lat)
              /\ locOp'.error = ""
         ELSE /\ locOp'.error \in {"Location permission denied", "Location information unavailable",
                                   "Location request timed out", "Unknown location error"}
              /\ UNCHANGED <<lastLocation, geofences>>
              /\ fired' = <<>>
    ]_vars

\* C23 witness: a request timed out while a location was known and a region
\* was in state inside
C23_Witness ==
    /\ locOp.name = "getCurrentLocation"
    /\ ~locOp.flag
    /\ locOp.error = "Location request timed out"
    /\ lastLocation # Null
    /\ \E i \in 1 .. Len(geofences) : geofences[i].isActive

--------------------------------------------------------------------------
\* Regions that are not well formed, and the day-stamp across time zones

\* regions a caller may pass that the GeofenceRegion type admits: a zero radius
\* and a negative radius
InvalidRegions ==
    {[id |-> "r1", center |-> 0, radiusMeters |-> 0, isActive |-> FALSE],
     [id |-> "r1", center |-> 2, radiusMeters |-> 0, isActive |-> TRUE],
     [id |-> "r2", center |-> 2, radiusMeters |-> -150, isActive |-> FALSE]}

ValidationNext ==
    \/ \E region \in BridgeRegions \cup InvalidRegions :
         RegisterGeofence(region) /\ UNCHANGED <<cacheVars, notifVars>>
    \/ \E id \in RegionIds : UnregisterGeofence(id) /\ UNCHANGED <<cacheVars, notifVars>>
    \/ StartLocationUpdates /\ UNCHANGED <<cacheVars, notifVars>>
    \/ \E lat \in Latitudes : WatchSample(lat) /\ UNCHANGED <<cacheVars, notifVars>>

SpecValidation == Init /\ [][ValidationNext]_vars

\* new Date().toISOString().split('T')[0]: the calendar day of the instant in
\* UTC; t is in minutes of local time, which is z minutes ahead of UTC
UtcDay(t, z) == (t - z) \div 1440

\* the clock moves to local minute t; getTodayDateString follows it
ClockTick(t) ==
    /\ t > now
    /\ now' = t
    /\ day' = UtcDay(t, zone)
    /\ adReturns' = IF day' = day THEN adReturns ELSE <<>>
    /\ adOverlap' = IF day' = day THEN adOverlap ELSE FALSE
    /\ cacheOp' = [name |-> "clockTick", result |-> Null, today |-> day', alone |-> tasks = <<>>,
                   error |-> FALSE]
    /\ UNCHANGED <<storage, tasks, lastCached, available, zone>>
    /\ UNCHANGED <<preferences, permission, scheduledTimeouts, timers, locationNotifications,
                   tapCallbacks, notifStorage, presented, routed, returned, displayed, tapped,
                   lastPrefs, armedUnder, notifOp>>

\* offsets of local time from UTC, in minutes: New York (winter), UTC, Paris
\* (winter), Delhi
Zones == {-300, 0, 60, 330}

\* local instants: 00:30, 01:30, 12:00, 20:00 and 23:30 of day 0, 00:30 of day 1
DayStampInstants ==
    {Minute(0, 30), Minute(1, 30), Minute(12, 0), Minute(20, 0), Minute(23, 30),
     1440 + Minute(0, 30)}

DayStampInit ==
    /\ LocInit
    /\ NotifInit
    /\ storage = [k \in StorageKeys |-> Null]
    /\ zone \in Zones
    /\ day = UtcDay(0, zone)
    /\ tasks = <<>>
    /\ cacheOp = [name |-> "init", result |-> Null, today |-> day, alone |-> TRUE, error |-> FALSE]
    /\ adReturns = <<>>
    /\ adOverlap = FALSE
    /\ lastCached = Null
    /\ available = TRUE

DayStampNext ==
    \/ \E t \in DayStampInstants : ClockTick(t) /\ UNCHANGED locVars
    \/ RecordAdWatchCall /\ UNCHANGED <<locVars, notifVars>>
    \/ RecordAdWatchResume /\ UNCHANGED <<locVars, notifVars>>
    \/ GetAdWatchCount /\ UNCHANGED <<locVars, notifVars>>

SpecDayStamp == DayStampInit /\ [][DayStampNext]_vars

--------------------------------------------------------------------------
\* The distance function on its own

\* latitudes in thousandths of a degree: the ones of the samples, and points one
\* degree and more apart up to the poles
DistancePoints == Latitudes \cup {-90000, -1000, -1, 1000, 1001, 2000, 45000, 46000, 90000}

DistanceNext ==
    \E from \in DistancePoints, to \in DistancePoints :
        CalculateDistance(from, to) /\ UNCHANGED <<cacheVars, notifVars>>

SpecDistance == Init /\ [][DistanceNext]_vars

--------------------------------------------------------------------------
\* Scheduled notifications under changing preferences

\* a one-shot, a repeating notification without an interval, a one-shot that
\* carries an interval, and a daily notification
DeliveryChoices ==
    {[id |-> "n1", category |-> "system", scheduledTime |-> Minute(23, 30),
      repeating |-> FALSE, repeatInterval |-> Null],
     [id |-> "n1", category |-> "system", scheduledTime |-> Minute(23, 30),
      repeating |-> TRUE, repeatInterval |-> Null],
     [id |-> "n2", category |-> "system", scheduledTime |-> Minute(7, 0),
      repeating |-> FALSE, repeatInterval |-> Some("daily")],
     [id |-> "n2", category |-> "daily_event", scheduledTime |-> Minute(23, 30),
      repeating |-> TRUE, repeatInterval |-> Some("daily")]}

\* the defaults, everything off, one category off, quiet from 22:00 to 07:00
DeliveryPreferences ==
    {DEFAULT_PREFERENCES,
     [DEFAULT_PREFERENCES EXCEPT !.enabled = FALSE],
     [DEFAULT_PREFERENCES EXCEPT !.categories = [c \in Categories |-> c # "system"]],
     [DEFAULT_PREFERENCES EXCEPT !.quietHoursStart = HHMM(22, 0), !.quietHoursEnd = HHMM(7, 0)]}

DeliveryInstants == {Minute(7, 0), Minute(23, 30), 1440}

DeliveryNext ==
    \/ \E n \in DeliveryChoices : ScheduleNotification(n) /\ UNCHANGED <<locVars, cacheVars>>
    \/ \E id \in NotificationIds :
         CancelScheduledNotification(id) /\ UNCHANGED <<locVars, cacheVars>>
    \/ \E t \in timers : TimerFire(t) /\ UNCHANGED <<locVars, cacheVars>>
    \/ \E t \in DeliveryInstants : AdvanceClock(t) /\ UNCHANGED <<locVars, cacheVars>>
    \/ \E p \in DeliveryPreferences : SetPreferences(p) /\ UNCHANGED <<locVars, cacheVars>>
    \/ \E st \in {"granted", "denied"} : SetPermission(st) /\ UNCHANGED <<locVars, cacheVars>>

SpecDelivery == Init /\ [][DeliveryNext]_vars

--------------------------------------------------------------------------
\* Overlapping calls of the daily-event cache across a day change

\* the event the application caches on day d; the field day tells the events of
\* different days apart
DayEvent(d) == [type |-> "DailyEvent", id |-> "event-001", startTime |-> "Date", day |-> d]

OverlapNext ==
    \/ CacheDailyEventCall(DayEvent(day)) /\ UNCHANGED <<locVars, notifVars>>
    \/ CacheDailyEventResume /\ UNCHANGED <<locVars, notifVars>>
    \/ GetCachedDailyEventCall /\ UNCHANGED <<locVars, notifVars>>
    \/ GetCachedDailyEventResume /\ UNCHANGED <<locVars, notifVars>>
    \/ AdvanceDay /\ UNCHANGED <<locVars, notifVars>>

SpecOverlap == Init /\ [][OverlapNext]_vars

--------------------------------------------------------------------------
\* Reads of the cache, after clear() and on their own

ReadsNext ==
    \/ Clear /\ UNCHANGED locVars
    \/ tasks = <<>> /\ RecordAdWatchCall /\ UNCHANGED <<locVars, notifVars>>
    \/ RecordAdWatchResume /\ UNCHANGED <<locVars, notifVars>>
    \/ \E event \in ClearEvents :
         tasks = <<>> /\ CacheDailyEventCall(event) /\ UNCHANGED <<locVars, notifVars>>
    \/ CacheDailyEventResume /\ UNCHANGED <<locVars, notifVars>>
    \/ GetCachedDailyEventCall /\ UNCHANGED <<locVars, notifVars>>
    \/ GetCachedDailyEventResume /\ UNCHANGED <<locVars, notifVars>>
    \/ GetAdWatchCount /\ UNCHANGED <<locVars, notifVars>>
    \/ IsEventUnlocked /\ UNCHANGED <<locVars, notifVars>>
    \/ AdvanceDay /\ UNCHANGED <<locVars, notifVars>>

SpecReads == Init /\ [][ReadsNext]_vars

--------------------------------------------------------------------------
\* Clearing, failing storage and bad stored data

\* C24: clear() removes the four keys that begin with 'herenow_' and leaves the
\* key without the prefix as it was, all in the one step another operation can
\* observe.
C24_ClearRemovesPrefixedOnly ==
    [][Clear =>
         /\ storage'["herenow_daily_event"] = Null
         /\ storage'["herenow_last_event_date"] = Null
         /\ notifStorage'["herenow_notification_prefs"] = Null
         /\ notifStorage'["herenow_scheduled_notifications"] = Null
         /\ storage'["undefined"] = storage["undefined"]
    ]_vars

\* C24 witness: clear() ran over a store holding a cached event, preferences
\* and the ad-watch counter; the counter alone is left
C24_Witness ==
    /\ cacheOp.name = "clear"
    /\ lastCached # Null
    /\ lastPrefs # Null
    /\ storage[DAILY_EVENT_CACHE] = Null
    /\ notifStorage[PREFERENCES_KEY] = Null
    /\ storage[AD_WATCH_COUNT] # Null

\* C25: after clear() no scheduled-notification timer is armed.
C25_ClearCancelsTimers == [][Clear => timers' = {}]_vars

\* C26: while the storage does not work no cache operation ends with an error,
\* getAdWatchCount returns 0, getCachedDailyEvent returns absent and
\* recordAdWatch returns 1.
C26_DegradedNotFatal ==
    ~available =>
        /\ ~cacheOp.error
        /\ cacheOp.name = "getAdWatchCount" => cacheOp.result = Some(0)
        /\ cacheOp.name = "getCachedDailyEvent" => cacheOp.result = Null
        /\ cacheOp.name = "recordAdWatch" => cacheOp.result = Some(1)

\* C27: a stored text that does not parse reads as absent and no operation ends
\* with an error: getCachedDailyEvent returns null when the day-stamp or the
\* event does not parse, recordAdWatch returns 1 over a counter that does not
\* parse, a process start over preferences that do not parse has the default
\* preferences, and over a schedule that does not parse arms no timer.
C27_MalformedIsAbsent ==
    [][/\ ~cacheOp'.error
       /\ (GetCachedDailyEventResume /\ cacheOp'.alone
            /\ (IsMalformed(storage[LAST_EVENT_DATE]) \/ IsMalformed(storage[DAILY_EVENT_CACHE])))
              => cacheOp'.result = Null
       /\ (RecordAdWatchResume /\ cacheOp'.alone /\ IsMalformed(storage[AD_WATCH_COUNT]))
              => cacheOp'.result = Some(1)
       /\ (Restart /\ IsMalformed(notifStorage[PREFERENCES_KEY]))
              => preferences' = [enabled |-> TRUE, categories |-> [c \in Categories |-> TRUE],
                                 quietHoursStart |-> Null, quietHoursEnd |-> Null]
       /\ (Restart /\ IsMalformed(notifStorage[SCHEDULED_KEY])) => timers' = {}
    ]_vars

\* C27 witness: over a store whose event, preferences and schedule do not parse
\* and whose day-stamp is today's, getCachedDailyEvent returned null and a
\* process start left the defaults and no timer
C27_Witness ==
    /\ cacheOp.name = "getCachedDailyEvent"
    /\ cacheOp.result = Null
    /\ IsMalformed(storage[DAILY_EVENT_CACHE])
    /\ storage[LAST_EVENT_DATE] = Some(DateString(day))
    /\ notifOp.name = "restart"
    /\ IsMalformed(notifStorage[PREFERENCES_KEY])
    /\ IsMalformed(notifStorage[SCHEDULED_KEY])
    /\ preferences = DEFAULT_PREFERENCES
    /\ timers = {}

\* the preferences last passed to setPreferences, the defaults when none was
LastSetPreferences == IF lastPrefs = Null THEN DEFAULT_PREFERENCES ELSE lastPrefs[1]

\* C29: getPreferences() returns the preferences last passed to setPreferences,
\* and a scheduler constructed at a process start has them too; both are the
\* defaults when setPreferences was never called.
C29_PreferencesPersist ==
    /\ notifOp.name = "getPreferences" => returned = Some(LastSetPreferences)
    /\ notifOp.name = "restart" => preferences = LastSetPreferences

\* C29 witness: a process start after setPreferences(p), p not the defaults,
\* has p
C29_Witness ==
    /\ notifOp.name = "restart"
    /\ lastPrefs # Null
    /\ preferences = lastPrefs[1]
    /\ preferences # DEFAULT_PREFERENCES

\* a region as the GeofenceRegion of the specification: a radius above zero and
\* a centre between the poles
IsValidRegion(region) ==
    /\ region.radiusMeters > 0
    /\ -90000 <= region.center /\ region.center <= 90000

\* C28: a region with a radius that is not above zero or a centre outside
\* latitude [-90, 90] is never in the registry and no event is fired for it.
C28_InvalidRegionRejected == \A i \in 1 .. Len(geofences) : IsValidRegion(geofences[i])

\* the calendar day of local minute t
LocalDay(t) == t \div 1440

\* C30: when the clock moves, the day-stamp changes exactly when the local
\* calendar day does, whatever the offset of local time from UTC.
C30_DayStampIsLocalDay ==
    [][now' # now => ((getTodayDateString' = getTodayDateString) <=> (LocalDay(now') = LocalDay(now)))]_vars

--------------------------------------------------------------------------
\* Distance, delivery of scheduled notifications, and properties over histories

AllowedNow(category) ==
    /\ preferences.enabled
    /\ preferences.categories[category]
    /\ ~InQuietWindow(preferences, now)
    /\ permission = "granted"

\* C32: when the timer of a notification that is not repeating, or has no
\* repeat interval, fires, the notification is presented once if delivery is
\* allowed at that moment and not at all otherwise; the timer is gone, no timer
\* is armed in its place, the id is no longer in the handle map, and an id that
\* had this one timer has none.
C32_OneShotDeliveredOnce ==
    [][\A t \in timers :
         (TimerFire(t) /\ ~(t.notification.repeating /\ t.notification.repeatInterval # Null)) =>
            LET n == t.notification
            IN  /\ presented' = IF AllowedNow(n.category) THEN <<n.id>> ELSE <<>>
                /\ timers' = timers \ {t}
                /\ scheduledTimeouts'[n.id] = Null
                /\ TimersOf(timers, n.id) = {t} => TimersOf(timers', n.id) = {}
    ]_vars

\* C32 witness: the one-shot for 07:00 that carries a daily interval fired at
\* 07:00, was presented, and no timer of its id is armed
C32_Witness ==
    /\ notifOp.name = "timerFire"
    /\ notifOp.id = "n2"
    /\ now = Minute(7, 0)
    /\ presented = <<"n2">>
    /\ TimersOf(timers, "n2") = {}

C34_DecidedAtFiring ==
    [][\A t \in timers :
         TimerFire(t) =>
            LET n == t.notification
            IN  /\ (armedUnder[n.id] = Some(TRUE) /\ ~AllowedNow(n.category)) => presented' = <<>>
                /\ (armedUnder[n.id] = Some(FALSE) /\ AllowedNow(n.category)) => presented' = <<n.id>>
    ]_vars

\* C34 witness: the one-shot n1 was armed while delivery was allowed, the
\* preferences were changed, and its timer fired without presenting it
C34_Witness ==
    /\ notifOp.name = "timerFire"
    /\ notifOp.id = "n1"
    /\ armedUnder["n1"] = Some(TRUE)
    /\ permission = "granted"
    /\ lastPrefs = Some(preferences)
    /\ presented = <<>>
    /\ timers = {}

\* C35: every event emitted for a region id differs from the event emitted for
\* that id before it, and the first event since the id was last unregistered is
\* 'enter'.
C35_EventsAlternate ==
    [][\A k \in 1 .. Len(fired') :
         /\ fired'[k].event # lastEv[fired'[k].id]
         /\ lastEv[fired'[k].id] = "none" => fired'[k].event = "enter"
    ]_vars

\* C36: when a last-known location exists, the isActive flag of every registered
\* region says whether that location is within the region's radius.
C36_ActiveMatchesLocation ==
    lastLocation # Null =>
        \A i \in 1 .. Len(geofences) :
            geofences[i].isActive <=>
                calculateDistance(lastLocation[1], geofences[i].center) <= geofences[i].radiusMeters

\* C37: an event getCachedDailyEvent returns was cached on the day the call
\* returns, whatever calls of cacheDailyEvent and getCachedDailyEvent overlap it
\* and wherever the day changes.
C37_NeverReturnsAnotherDaysEvent ==
    (cacheOp.name = "getCachedDailyEvent" /\ cacheOp.result # Null) =>
        cacheOp.result[1].day = day

\* C37 witness: on a later day a getCachedDailyEvent that overlapped another
\* call returned the event of that day while the store had held an older one
C37_Witness ==
    /\ cacheOp.name = "getCachedDailyEvent"
    /\ ~cacheOp.alone
    /\ day > 0
    /\ cacheOp.result # Null
    /\ cacheOp.result[1].day = day

\* C38: after clear(), with no call pending, the store of the persistence
\* service holds nothing, getAdWatchCount returns 0 and isEventUnlocked returns
\* false.
C38_ClearedStoreReadsEmpty ==
    [][(cacheOp.name = "clear" /\ tasks = <<>>) =>
         /\ \A k \in StorageKeys : storage[k] = Null
         /\ GetAdWatchCount => cacheOp'.result = Some(0)
         /\ IsEventUnlocked => cacheOp'.result = Some(FALSE)
    ]_vars

\* C39: getCachedDailyEvent, getAdWatchCount and isEventUnlocked leave the store
\* as it is, also over a day-stamp or a counter of an earlier day.
C39_ReadsLeaveStore ==
    [][(\/ GetCachedDailyEventCall
        \/ GetCachedDailyEventResume
        \/ GetAdWatchCount
        \/ IsEventUnlocked) => (storage' = storage /\ notifStorage' = notifStorage)
    ]_vars

\* C39 witness: getAdWatchCount returned 0 over a counter of an earlier day and
\* getCachedDailyEvent found the day-stamp stale; the old counter, the old stamp
\* and the old event are still in the store
C39_Witness ==
    /\ cacheOp.name = "getCachedDailyEvent"
    /\ cacheOp.result = Null
    /\ storage[LAST_EVENT_DATE] # Null
    /\ storage[LAST_EVENT_DATE][1].value < day
    /\ storage[DAILY_EVENT_CACHE] # Null
    /\ storage[AD_WATCH_COUNT] # Null
    /\ storage[AD_WATCH_COUNT][1].date < day
    /\ AdWatchCount = 0

====
